---- MODULE Spec2Model ----
(***************************************************************************)
(* State-machine model of token-alchemy's persisted lifecycle stores:      *)
(*   - BackstopManager (prompt_compress/validation.py)                     *)
(*   - Codebook        (prompt_compress/codebook.py)                       *)
(* Tables are sets of rows; every public method is one action, committed   *)
(* on return as the code does.                                             *)
(***************************************************************************)
EXTENDS Integers, Sequences, FiniteSets, TLC

\* an optional value: None / NULL, or a value
Null == <<>>
Some(v) == <<v>>

(* ------------------------------ bounds -------------------------------- *)
\* largest number of estimate_tokens calls followed
MaxCalls == 3
\* largest value the wall clock (time.time / datetime.utcnow) reaches
MaxClock == 1
\* fragments in the value of a line passed to compress
MaxFragments == 2
\* largest number of rows in backstop_activations
MaxLog == 3
\* largest times_seen a codebook pattern reaches
MaxSeen == 2
\* largest number of rows in validation_tests
MaxTests == 2
\* largest number of words in a rule text given to classify_rule_tier
MaxWords == 10
\* calls the two connections to one store begin, in all
MaxWrites == 3

(* --------------------------- input domains ---------------------------- *)
RuleIds == {"tone_rule", "energy_calibration"}
Texts == {"Use high energy for wins.", "Never default to neutral."}
Originals == {"Search Engine Optimization", "Return on Investment"}
Forms == {"SEO", "ROI"}
\* every text a pattern can be stored under: the expansions and the line
\* extract_patterns keys its emoji on
AllOriginals == Originals \cup {"U+1F512 never share U+1F511"}
EntryIds == {"test1", "test2"}
ActiveTexts == {"Our SEO strategy improved ROI", "SEO audit", ""}
\* token_cost_warm as the caller passes it: left out for "SEO", the
\* caller's own count for "ROI"
WarmCost(compressed) == IF compressed = "ROI" THEN Some(2) ELSE Null
\* values uuid4()[:8] can take
PatternIds == {"1f0e3dad", "9b2c44a7"}

(* ----------------------------- enums ---------------------------------- *)
COLD == 0
WARM == 1
HOT == 2
TIER_1 == 1
TIER_2 == 2

\* RuleResult(rule_id, activated_correctly, suppressed_correctly,
\*            output_compliant), backstop_needed and notes at their defaults
RuleResult(rule_id, a, s, o) ==
    [rule_id |-> rule_id, activated_correctly |-> a,
     suppressed_correctly |-> s, output_compliant |-> o,
     backstop_needed |-> FALSE, notes |-> ""]

TestNumbers == {1, 2}
RuleResultLists ==
    { << >>,
      << RuleResult("tone_rule", TRUE, TRUE, TRUE) >>,
      << RuleResult("tone_rule", TRUE, TRUE, FALSE),
         RuleResult("energy_calibration", FALSE, TRUE, TRUE),
         RuleResult("energy_calibration", TRUE, TRUE, TRUE) >> }
\* a rule_id of None, which the NOT NULL column rule_id refuses
NoneId == "None"
\* lists record_test cannot store: a RuleResult without a rule id, first
\* or after a proper one
BadResultLists ==
    { << RuleResult(NoneId, TRUE, TRUE, TRUE) >>,
      << RuleResult("tone_rule", TRUE, TRUE, TRUE),
         RuleResult(NoneId, TRUE, TRUE, TRUE) >> }
Tiers == {TIER_1, TIER_2}
Evidence == {"register drift"}

VARIABLES
    clock,                 \* the latest value read from the wall clock
    backstop_entries,      \* table backstop_entries: set of rows
    backstop_activations,  \* table backstop_activations: rows in rowid order
    ret,                   \* outcome of the last BackstopManager call
    calls,                 \* history: record_activation calls made per rule
                           \* while its backstop row existed
    compression_codebook,  \* table compression_codebook: set of rows
    cbret,                 \* outcome of the last Codebook call
    observed,              \* history: per original text, the record_pattern
                           \* calls made for it and what they returned
    validation_tests,        \* table validation_tests: rows in rowid order
    validation_rule_results, \* table validation_rule_results: rows in rowid order
    validation_rules,        \* table validation_rules: set of rows
    vret,                    \* outcome of the last ValidationTracker call
    recorded,                \* history: record_test calls made, rule results
                             \* passed, per rule the first_seen it was
                             \* created with, and the ids of the test rows
                             \* written by calls that raised
    session,                 \* the ValidationSession object and its position
                             \* in the with statement
    handles,                 \* the store connections the session opened
    rule_text,               \* classify_rule_tier: the text to classify
    classified,              \* classify_rule_tier: the dict returned
    files,                   \* the files os.path.isfile finds
    pack_ret,                \* outcome of the last load_vocab_pack call
    compress_in,             \* compress: the text passed in
    compress_ret,            \* compress: the CompressResult returned
    _claude_encoder,         \* tokenizer module: the encoder, once loaded
    _claude_encoder_loaded,  \* tokenizer module: a load has been attempted
    load_attempts,           \* history: the load attempts made
    estimates,               \* history: what each estimate_tokens call
                             \* returned
    validation_db,           \* the tracker's database file: the tables as
                             \* of the last commit
    connections,             \* two connections to one store: the call each
                             \* is in, what it read and its open transaction
    completed                \* history: the calls of the two connections
                             \* that returned

bsvars == <<backstop_entries, backstop_activations, ret, calls>>
cbvars == <<compression_codebook, cbret, observed>>
vtvars == <<validation_tests, validation_rule_results, validation_rules,
            vret, recorded, validation_db>>
svars == <<session, handles>>
\* what no store method touches
tiervars == <<rule_text, classified>>
packvars == <<files, pack_ret>>
abbrevvars == <<compress_in, compress_ret>>
tokvars == <<_claude_encoder, _claude_encoder_loaded, load_attempts,
             estimates>>
purevars == <<tiervars, packvars, abbrevvars, tokvars>>
concvars == <<connections, completed>>
othervars == <<svars, purevars, concvars>>
vars == <<clock, backstop_entries, backstop_activations, ret, calls,
          compression_codebook, cbret, observed,
          validation_tests, validation_rule_results, validation_rules,
          vret, recorded, session, handles, rule_text, classified,
          files, pack_ret, compress_in, compress_ret,
          _claude_encoder, _claude_encoder_loaded, load_attempts, estimates,
          validation_db, connections, completed>>

(* ------------------------------ wall clock --------------------------- *)
\* time.time() / datetime.utcnow(): a reading is never earlier than the
\* reading before it
Now == clock..MaxClock

(* ------------------------- Backstop dataclass ------------------------- *)
\* Python's int / int true division, kept as an exact fraction
Frac(n, d) == [num |-> n, den |-> d]
\* q == 1.0 and q == 0.0; a zero denominator is ZeroDivisionError, no value
IsOne(q) == q.den # 0 /\ q.num = q.den
IsZero(q) == q.den # 0 /\ q.num = 0

\* bug variant: the division without the test_count == 0 guard
hit_rate_unguarded(bs) == Frac(bs.activation_count, bs.test_count)

hit_rate(bs) ==
    IF bs.test_count = 0 THEN Frac(0, 1)
    ELSE Frac(bs.activation_count, bs.test_count)

\* bug variant: off-by-one, more than three tests required
ready_for_hot_gt3(bs) == bs.test_count > 3 /\ IsOne(hit_rate(bs))

\* bug variant: a partial-credit threshold (two thirds) instead of exact 100%
ready_for_hot_threshold(bs) ==
    /\ bs.test_count >= 3
    /\ hit_rate(bs).num * 3 >= hit_rate(bs).den * 2

\* bug variant: only the test count is looked at
ready_for_hot_count_only(bs) == bs.test_count >= 3

ready_for_hot(bs) == bs.test_count >= 3 /\ IsOne(hit_rate(bs))

_get_backstop(row) ==
    [backstop_id      |-> row.backstop_id,
     rule_id          |-> row.rule_id,
     text             |-> row.text,
     stage            |-> row.stage,
     activation_count |-> row.activation_count,
     test_count       |-> row.test_count,
     promoted_at      |-> row.promoted_at,
     insertion_point  |-> row.insertion_point]

(* --------------------------- BackstopManager -------------------------- *)
\* Rows carry every column a lifecycle decision or a query result depends on.
\* created_at (entries) and timestamp (activations) are stamped once from
\* time.time() and only ever used for ordering result lists; they are left
\* out of the rows, promoted_at is kept.
BackstopId(rule_id) == "bs_" \o rule_id

\* SELECT * FROM backstop_entries WHERE backstop_id = ?
SelectEntries(backstop_id) == {e \in backstop_entries : e.backstop_id = backstop_id}

\* fetchone(): some matching row
FetchOne(rows) == CHOOSE e \in rows : TRUE

Ret(op, rule_id, result, obj) ==
    [op |-> op, rule_id |-> rule_id, result |-> result, obj |-> obj]

InitBackstop ==
    /\ backstop_entries = {}
    /\ backstop_activations = <<>>
    /\ ret = Ret("init", "", "None", Null)
    /\ calls = [r \in RuleIds |-> [t |-> 0, f |-> 0]]

\* bug variant: no uniqueness constraint on backstop_id
InsertEntry_nopk(row) == TRUE

\* bug variant: uniqueness only among rows that are not retired
InsertEntry_active(row) ==
    {e \in SelectEntries(row.backstop_id) : e.retired = 0} = {}

\* INSERT INTO backstop_entries: backstop_id is the PRIMARY KEY;
\* TRUE when the insert is accepted
InsertEntry(row) ==
    SelectEntries(row.backstop_id) = {}

create(rule_id, text, insertion_point) ==
    LET backstop_id == BackstopId(rule_id)
        row == [backstop_id      |-> backstop_id,
                rule_id          |-> rule_id,
                text             |-> text,
                stage            |-> WARM,
                activation_count |-> 0,
                test_count       |-> 0,
                promoted_at      |-> Null,
                insertion_point  |-> insertion_point,
                retired          |-> 0]
    IN  /\ IF InsertEntry(row)
           THEN /\ backstop_entries' = backstop_entries \cup {row}
                /\ ret' = Ret("create", rule_id, "Backstop",
                              Some(_get_backstop(row)))
           ELSE /\ backstop_entries' = backstop_entries
                /\ ret' = Ret("create", rule_id, "IntegrityError", Null)
        /\ UNCHANGED <<clock, backstop_activations, calls, cbvars, vtvars, othervars>>

\* bug variant: activation_count is incremented whatever `activated` is
record_activation_counts_all(rule_id, activated) ==
    LET backstop_id == BackstopId(rule_id)
        event == [id          |-> Len(backstop_activations) + 1,
                  backstop_id |-> backstop_id,
                  test_number |-> Null,
                  activated   |-> IF activated THEN 1 ELSE 0,
                  notes       |-> ""]
    IN  /\ Len(backstop_activations) < MaxLog
        /\ backstop_activations' = Append(backstop_activations, event)
        /\ backstop_entries' =
              {IF e.backstop_id = backstop_id
               THEN [e EXCEPT !.test_count = @ + 1,
                              !.activation_count = @ + 1]
               ELSE e : e \in backstop_entries}
        /\ ret' = Ret("record_activation", rule_id, "None", Null)
        /\ calls' = IF SelectEntries(backstop_id) = {} THEN calls
                    ELSE IF activated
                         THEN [calls EXCEPT ![rule_id].t = @ + 1]
                         ELSE [calls EXCEPT ![rule_id].f = @ + 1]
        /\ UNCHANGED <<clock, cbvars, vtvars, othervars>>

\* bug variant: the foreign key of backstop_activations is enforced, so an
\* event for a rule without a backstop row is rejected
record_activation_fk(rule_id, activated) ==
    LET backstop_id == BackstopId(rule_id)
        event == [id          |-> Len(backstop_activations) + 1,
                  backstop_id |-> backstop_id,
                  test_number |-> Null,
                  activated   |-> IF activated THEN 1 ELSE 0,
                  notes       |-> ""]
    IN  /\ Len(backstop_activations) < MaxLog
        /\ IF SelectEntries(backstop_id) = {}
           THEN /\ ret' = Ret("record_activation", rule_id, "IntegrityError", Null)
                /\ UNCHANGED <<backstop_activations, backstop_entries, calls>>
           ELSE /\ backstop_activations' = Append(backstop_activations, event)
                /\ backstop_entries' =
                      {IF e.backstop_id = backstop_id
                       THEN [e EXCEPT !.test_count = @ + 1,
                                      !.activation_count =
                                          @ + (IF activated THEN 1 ELSE 0)]
                       ELSE e : e \in backstop_entries}
                /\ ret' = Ret("record_activation", rule_id, "None", Null)
                /\ calls' = IF activated
                            THEN [calls EXCEPT ![rule_id].t = @ + 1]
                            ELSE [calls EXCEPT ![rule_id].f = @ + 1]
        /\ UNCHANGED <<clock, cbvars, vtvars, othervars>>

record_activation(rule_id, activated) ==
    LET backstop_id == BackstopId(rule_id)
        event == [id          |-> Len(backstop_activations) + 1,
                  backstop_id |-> backstop_id,
                  test_number |-> Null,
                  activated   |-> IF activated THEN 1 ELSE 0,
                  notes       |-> ""]
    IN  /\ Len(backstop_activations) < MaxLog
        /\ backstop_activations' = Append(backstop_activations, event)
        /\ backstop_entries' =
              {IF e.backstop_id = backstop_id
               THEN [e EXCEPT !.test_count = @ + 1,
                              !.activation_count =
                                  @ + (IF activated THEN 1 ELSE 0)]
               ELSE e : e \in backstop_entries}
        /\ ret' = Ret("record_activation", rule_id, "None", Null)
        /\ calls' = IF SelectEntries(backstop_id) = {} THEN calls
                    ELSE IF activated
                         THEN [calls EXCEPT ![rule_id].t = @ + 1]
                         ELSE [calls EXCEPT ![rule_id].f = @ + 1]
        /\ UNCHANGED <<clock, cbvars, vtvars, othervars>>

promote_to_hot(rule_id) ==
    LET backstop_id == BackstopId(rule_id)
        rows == SelectEntries(backstop_id)
    IN  /\ IF rows = {}
           THEN /\ ret' = Ret("promote_to_hot", rule_id, "False", Null)
                /\ UNCHANGED <<clock, backstop_entries>>
           ELSE LET bs == _get_backstop(FetchOne(rows))
                IN  IF ~ready_for_hot(bs)
                    THEN /\ ret' = Ret("promote_to_hot", rule_id, "False", Null)
                         /\ UNCHANGED <<clock, backstop_entries>>
                    ELSE \E now \in Now :
                         /\ clock' = now
                         /\ backstop_entries' =
                               {IF e.backstop_id = backstop_id
                                THEN [e EXCEPT !.stage = HOT,
                                               !.promoted_at = Some(now)]
                                ELSE e : e \in backstop_entries}
                         /\ ret' = Ret("promote_to_hot", rule_id, "True", Null)
        /\ UNCHANGED <<backstop_activations, calls, cbvars, vtvars, othervars>>

\* bug variant: retiring also puts the stage back to WARM
retire_resets_stage(rule_id) ==
    LET backstop_id == BackstopId(rule_id)
    IN  /\ backstop_entries' =
              {IF e.backstop_id = backstop_id
               THEN [e EXCEPT !.retired = 1, !.stage = WARM]
               ELSE e : e \in backstop_entries}
        /\ ret' = Ret("retire", rule_id, "None", Null)
        /\ UNCHANGED <<clock, backstop_activations, calls, cbvars, vtvars, othervars>>

\* bug variant: retiring removes the row instead of flagging it
retire_deletes(rule_id) ==
    LET backstop_id == BackstopId(rule_id)
    IN  /\ backstop_entries' =
              {e \in backstop_entries : e.backstop_id # backstop_id}
        /\ ret' = Ret("retire", rule_id, "None", Null)
        /\ UNCHANGED <<clock, backstop_activations, calls, cbvars, vtvars, othervars>>

\* bug variant: retiring a backstop also drops the rule's metadata row
retire_cascades(rule_id) ==
    LET backstop_id == BackstopId(rule_id)
    IN  /\ backstop_entries' =
              {IF e.backstop_id = backstop_id
               THEN [e EXCEPT !.retired = 1]
               ELSE e : e \in backstop_entries}
        /\ validation_rules' = {m \in validation_rules : m.rule_id # rule_id}
        /\ ret' = Ret("retire", rule_id, "None", Null)
        /\ UNCHANGED <<clock, backstop_activations, calls, cbvars,
                       validation_tests, validation_rule_results, vret,
                       recorded, validation_db, othervars>>

\* bug variant: retiring a backstop clears its counters
retire_resets_counts(rule_id) ==
    LET backstop_id == BackstopId(rule_id)
    IN  /\ backstop_entries' =
              {IF e.backstop_id = backstop_id
               THEN [e EXCEPT !.retired = 1, !.test_count = 0]
               ELSE e : e \in backstop_entries}
        /\ ret' = Ret("retire", rule_id, "None", Null)
        /\ UNCHANGED <<clock, backstop_activations, calls, cbvars, vtvars, othervars>>

retire(rule_id) ==
    LET backstop_id == BackstopId(rule_id)
    IN  /\ backstop_entries' =
              {IF e.backstop_id = backstop_id
               THEN [e EXCEPT !.retired = 1]
               ELSE e : e \in backstop_entries}
        /\ ret' = Ret("retire", rule_id, "None", Null)
        /\ UNCHANGED <<clock, backstop_activations, calls, cbvars, vtvars, othervars>>

\* what get(rule_id) returns in the current state
GetResult(rule_id) ==
    LET rows == SelectEntries(BackstopId(rule_id))
    IN  IF rows = {}
        THEN Ret("get", rule_id, "None", Null)
        ELSE Ret("get", rule_id, "Backstop", Some(_get_backstop(FetchOne(rows))))

get(rule_id) ==
    /\ ret' = GetResult(rule_id)
    /\ UNCHANGED <<clock, backstop_entries, backstop_activations, calls, cbvars, vtvars, othervars>>

\* CompressionStage(r["stage"]).name
StageName(stage) ==
    IF stage = COLD THEN "COLD" ELSE IF stage = WARM THEN "WARM" ELSE "HOT"

\* bug variant: two tests are enough to report readiness
HitRateEntry_two_tests(r) ==
    [hit_rate      |-> IF r.test_count > 0
                       THEN Frac(r.activation_count, r.test_count)
                       ELSE Frac(0, 1),
     tests         |-> r.test_count,
     stage         |-> StageName(r.stage),
     ready_for_hot |-> /\ r.test_count >= 2
                       /\ r.test_count > 0
                       /\ r.activation_count = r.test_count]

\* the value hit_rates() builds for one row
HitRateEntry(r) ==
    [hit_rate      |-> IF r.test_count > 0
                       THEN Frac(r.activation_count, r.test_count)
                       ELSE Frac(0, 1),
     tests         |-> r.test_count,
     stage         |-> StageName(r.stage),
     ready_for_hot |-> /\ r.test_count >= 3
                       /\ r.test_count > 0
                       /\ r.activation_count = r.test_count]

\* SELECT * FROM backstop_entries WHERE retired = 0, as a dict by rule_id
HitRates ==
    LET rows == {e \in backstop_entries : e.retired = 0}
    IN  [rule_id \in {e.rule_id : e \in rows} |->
            HitRateEntry(CHOOSE e \in rows : e.rule_id = rule_id)]

hit_rates ==
    /\ ret' = Ret("hit_rates", "", "dict", Some(HitRates))
    /\ UNCHANGED <<clock, backstop_entries, backstop_activations, calls, cbvars, vtvars, othervars>>

\* warm_backstops(), hot_backstops(): the rows selected (created_at and
\* promoted_at only order the lists)
warm_backstops ==
    {_get_backstop(e) : e \in {x \in backstop_entries :
                                  x.stage = WARM /\ x.retired = 0}}
hot_backstops ==
    {_get_backstop(e) : e \in {x \in backstop_entries : x.stage = HOT}}

\* what BackstopManager.stats() returns in the current state
BackstopStats ==
    [total_active |-> Cardinality({e \in backstop_entries : e.retired = 0}),
     warm |-> Cardinality({e \in backstop_entries :
                              e.stage = WARM /\ e.retired = 0}),
     hot |-> Cardinality({e \in backstop_entries : e.stage = HOT}),
     retired |-> Cardinality({e \in backstop_entries : e.retired = 1})]

(* ------------------------------ tokenizer ----------------------------- *)
\* The chunks re.findall splits a text into, as <<class, length, newlines>>:
\* "w" a word, "s" a whitespace run, "p" a punctuation mark or the section
\* sign U+00A7, "e" an emoji.
Chunks(text) ==
    CASE text = "Search Engine Optimization" ->
            << <<"w", 6, 0>>, <<"s", 1, 0>>, <<"w", 6, 0>>, <<"s", 1, 0>>,
               <<"w", 12, 0>> >>
      [] text = "Return on Investment" ->
            << <<"w", 6, 0>>, <<"s", 1, 0>>, <<"w", 2, 0>>, <<"s", 1, 0>>,
               <<"w", 10, 0>> >>
      [] text = "SEO" -> << <<"w", 3, 0>> >>
      [] text = "ROI" -> << <<"w", 3, 0>> >>
      [] text = "user knowledge" ->
            << <<"w", 4, 0>>, <<"s", 1, 0>>, <<"w", 9, 0>> >>
      [] text = "userknowledge" -> << <<"w", 13, 0>> >>
      [] text = "user_knowledge" -> << <<"w", 14, 0>> >>
      [] text = "return_on_investment" -> << <<"w", 20, 0>> >>
      [] text = "Section" -> << <<"w", 7, 0>> >>
      [] text = "U+00A7" -> << <<"p", 1, 0>> >>
      [] text = "plan" -> << <<"w", 4, 0>> >>
      [] text = "pln" -> << <<"w", 3, 0>> >>
      [] text = "note" -> << <<"w", 4, 0>> >>
      [] text = "U+1F512" -> << <<"e", 1, 0>> >>
      [] text = "U+1F511" -> << <<"e", 1, 0>> >>
      [] text = "U+1F512 never share U+1F511" ->
            << <<"e", 1, 0>>, <<"s", 1, 0>>, <<"w", 5, 0>>, <<"s", 1, 0>>,
               <<"w", 5, 0>>, <<"s", 1, 0>>, <<"e", 1, 0>> >>
      [] OTHER -> << >>

Max(a, b) == IF a >= b THEN a ELSE b

\* cost of one chunk in the heuristic loop
ChunkTokens(chunk) ==
    LET len == chunk[2]
        newlines == chunk[3]
    IN  IF chunk[1] = "w"
        THEN IF len <= 7 THEN 1
             ELSE IF len <= 12 THEN 2
             ELSE Max(2, len \div 5)
        ELSE IF chunk[1] = "p" THEN 1
        ELSE IF chunk[1] = "e" THEN 3
        ELSE newlines + (IF newlines = 0 /\ len > 1 THEN 1 ELSE 0)

RECURSIVE SumTokens(_)
SumTokens(chunks) ==
    IF chunks = << >> THEN 0
    ELSE ChunkTokens(Head(chunks)) + SumTokens(Tail(chunks))

\* heuristic fallback of estimate_tokens (no claude.json ships with the package)
estimate_tokens(text) ==
    IF text = "" THEN 0 ELSE Max(1, SumTokens(Chunks(text)))

(* ------------------------------ Codebook ------------------------------ *)
\* Rows carry the columns some method writes or reads; token_cost_hot,
\* times_decoded_ok, promoted_at and metadata keep their schema defaults.
CbRet(op, result) == [op |-> op, result |-> result]

InitCodebook ==
    /\ compression_codebook = {}
    /\ cbret = CbRet("init", Null)
    /\ observed = [o \in AllOriginals |->
                     [n |-> 0, ids |-> {}, rets |-> {}, other |-> FALSE]]

\* SELECT ... FROM compression_codebook WHERE pattern_text = ?
SelectPattern(original) ==
    {p \in compression_codebook : p.pattern_text = original}

\* entry_id in old_ids
InList(x, list) == \E i \in 1..Len(list) : list[i] = x

\* bug variant: the entry id is appended without the membership test
AppendId_always(old_ids, entry_id) == Append(old_ids, entry_id)

\* if entry_id not in old_ids: old_ids.append(entry_id)
AppendId(old_ids, entry_id) ==
    IF InList(entry_id, old_ids) THEN old_ids ELSE Append(old_ids, entry_id)

Observe(original, entry_id, cid) ==
    [observed EXCEPT ![original] =
        [n     |-> @.n + 1,
         ids   |-> @.ids \cup {entry_id},
         rets  |-> @.rets \cup {cid},
         other |-> @.other]]

\* bug variant: a re-observation keeps the form stored first
record_pattern_keeps_form(original, compressed, entry_id, cost_original, cost_warm) ==
    LET token_cost_original ==
            IF cost_original = Null THEN estimate_tokens(original)
            ELSE cost_original[1]
        token_cost_warm ==
            IF cost_warm = Null THEN estimate_tokens(compressed)
            ELSE cost_warm[1]
        found == SelectPattern(original)
    IN  \E now \in Now :
        /\ clock' = now
        /\ IF found # {}
           THEN LET existing == FetchOne(found)
                    old_ids == AppendId(existing.source_entry_ids, entry_id)
                IN  /\ existing.times_seen < MaxSeen
                    /\ compression_codebook' =
                          {IF p.id = existing.id
                           THEN [p EXCEPT !.times_seen = @ + 1,
                                          !.last_seen_at = now,
                                          !.source_entry_ids = old_ids]
                           ELSE p : p \in compression_codebook}
                    /\ cbret' = CbRet("record_pattern", Some(existing.id))
                    /\ observed' = Observe(original, entry_id, existing.id)
           ELSE \E cid \in PatternIds \ {p.id : p \in compression_codebook} :
                    /\ compression_codebook' = compression_codebook \cup
                          {[id                  |-> cid,
                            pattern_text        |-> original,
                            warm_form           |-> compressed,
                            hot_form            |-> Null,
                            stage               |-> COLD,
                            token_cost_original |-> token_cost_original,
                            token_cost_warm     |-> token_cost_warm,
                            times_seen          |-> 1,
                            confidence          |-> 0,
                            first_seen_at       |-> now,
                            last_seen_at        |-> now,
                            source_entry_ids    |-> <<entry_id>>]}
                    /\ cbret' = CbRet("record_pattern", Some(cid))
                    /\ observed' = Observe(original, entry_id, cid)
        /\ UNCHANGED <<bsvars, vtvars, othervars>>

record_pattern(original, compressed, entry_id, cost_original, cost_warm) ==
    LET token_cost_original ==
            IF cost_original = Null THEN estimate_tokens(original)
            ELSE cost_original[1]
        token_cost_warm ==
            IF cost_warm = Null THEN estimate_tokens(compressed)
            ELSE cost_warm[1]
        found == SelectPattern(original)
    IN  \E now \in Now :
        /\ clock' = now
        /\ IF found # {}
           THEN LET existing == FetchOne(found)
                    old_ids == AppendId(existing.source_entry_ids, entry_id)
                IN  /\ existing.times_seen < MaxSeen
                    /\ compression_codebook' =
                          {IF p.id = existing.id
                           THEN [p EXCEPT !.times_seen = @ + 1,
                                          !.last_seen_at = now,
                                          !.source_entry_ids = old_ids,
                                          !.warm_form = compressed,
                                          !.token_cost_warm = token_cost_warm]
                           ELSE p : p \in compression_codebook}
                    /\ cbret' = CbRet("record_pattern", Some(existing.id))
                    /\ observed' = Observe(original, entry_id, existing.id)
           ELSE \E cid \in PatternIds \ {p.id : p \in compression_codebook} :
                    /\ compression_codebook' = compression_codebook \cup
                          {[id                  |-> cid,
                            pattern_text        |-> original,
                            warm_form           |-> compressed,
                            hot_form            |-> Null,
                            stage               |-> COLD,
                            token_cost_original |-> token_cost_original,
                            token_cost_warm     |-> token_cost_warm,
                            times_seen          |-> 1,
                            confidence          |-> 0,
                            first_seen_at       |-> now,
                            last_seen_at        |-> now,
                            source_entry_ids    |-> <<entry_id>>]}
                    /\ cbret' = CbRet("record_pattern", Some(cid))
                    /\ observed' = Observe(original, entry_id, cid)
        /\ UNCHANGED <<bsvars, vtvars, othervars>>

\* check_form in active_text, for the forms and texts of the model
Contains(active_text, form) ==
    \/ active_text = "Our SEO strategy improved ROI" /\ form \in {"SEO", "ROI"}
    \/ active_text = "SEO audit" /\ form = "SEO"

\* bug variant: every stored pattern is counted, whatever the text holds
update_usage_all(active_text) ==
    \E now \in (IF compression_codebook = {} THEN {clock} ELSE Now) :
        /\ clock' = now
        /\ \A row \in compression_codebook : row.times_seen < MaxSeen
        /\ compression_codebook' =
              {[row EXCEPT !.times_seen = @ + 1, !.last_seen_at = now] :
                  row \in compression_codebook}
        /\ cbret' = CbRet("update_usage",
                          Some(Cardinality(compression_codebook)))
        /\ observed' = [o \in AllOriginals |->
                          [observed[o] EXCEPT !.other =
                              @ \/ \E row \in compression_codebook :
                                      row.pattern_text = o]]
        /\ UNCHANGED <<bsvars, vtvars, othervars>>

\* bug variant: a pattern found in the active text is promoted to WARM
update_usage_promotes(active_text) ==
    LET check_form(row) ==
            IF row.hot_form # Null /\ row.stage = HOT
            THEN row.hot_form[1] ELSE row.warm_form
        hits == {row \in compression_codebook :
                    /\ check_form(row) # ""
                    /\ Contains(active_text, check_form(row))}
    \* without a hit the reading of the clock is stored nowhere
    IN  \E now \in (IF hits = {} THEN {clock} ELSE Now) :
        /\ clock' = now
        /\ \A row \in hits : row.times_seen < MaxSeen
        /\ compression_codebook' =
              {IF row \in hits
               THEN [row EXCEPT !.times_seen = @ + 1, !.last_seen_at = now,
                                !.stage = WARM]
               ELSE row : row \in compression_codebook}
        /\ cbret' = CbRet("update_usage", Some(Cardinality(hits)))
        /\ observed' = [o \in AllOriginals |->
                          [observed[o] EXCEPT !.other =
                              @ \/ \E row \in hits : row.pattern_text = o]]
        /\ UNCHANGED <<bsvars, vtvars, othervars>>

update_usage(active_text) ==
    LET check_form(row) ==
            IF row.hot_form # Null /\ row.stage = HOT
            THEN row.hot_form[1] ELSE row.warm_form
        hits == {row \in compression_codebook :
                    /\ check_form(row) # ""
                    /\ Contains(active_text, check_form(row))}
    \* without a hit the reading of the clock is stored nowhere
    IN  \E now \in (IF hits = {} THEN {clock} ELSE Now) :
        /\ clock' = now
        /\ \A row \in hits : row.times_seen < MaxSeen
        /\ compression_codebook' =
              {IF row \in hits
               THEN [row EXCEPT !.times_seen = @ + 1, !.last_seen_at = now]
               ELSE row : row \in compression_codebook}
        /\ cbret' = CbRet("update_usage", Some(Cardinality(hits)))
        /\ observed' = [o \in AllOriginals |->
                          [observed[o] EXCEPT !.other =
                              @ \/ \E row \in hits : row.pattern_text = o]]
        /\ UNCHANGED <<bsvars, vtvars, othervars>>

\* SUM(CASE WHEN stage = s THEN 1 ELSE 0 END): NULL over an empty table
SumStage(s) ==
    IF compression_codebook = {} THEN Null
    ELSE Some(Cardinality({p \in compression_codebook : p.stage = s}))

StatsResult ==
    [total |-> Cardinality(compression_codebook),
     cold  |-> SumStage(COLD),
     warm  |-> SumStage(WARM),
     hot   |-> SumStage(HOT)]

stats ==
    /\ cbret' = CbRet("stats", Some(StatsResult))
    /\ UNCHANGED <<clock, bsvars, vtvars, othervars, compression_codebook, observed>>

(* --------------------------- TestRun dataclass ------------------------ *)
Compliant(r) ==
    r.activated_correctly /\ r.suppressed_correctly /\ r.output_compliant
NotCompliant(r) == ~Compliant(r)

RECURSIVE CountPassed(_)
\* sum(1 for r in rule_results if all three flags)
CountPassed(rule_results) ==
    IF rule_results = << >> THEN 0
    ELSE (IF Compliant(Head(rule_results)) THEN 1 ELSE 0)
            + CountPassed(Tail(rule_results))

RECURSIVE CountOutputCompliant(_)
CountOutputCompliant(rule_results) ==
    IF rule_results = << >> THEN 0
    ELSE (IF Head(rule_results).output_compliant THEN 1 ELSE 0)
            + CountOutputCompliant(Tail(rule_results))

\* bug variant: only output_compliant counts as passed
pass_rate_output_only(run) ==
    IF run.rule_results = << >> THEN Frac(0, 1)
    ELSE Frac(CountOutputCompliant(run.rule_results), Len(run.rule_results))

pass_rate(run) ==
    IF run.rule_results = << >> THEN Frac(0, 1)
    ELSE Frac(CountPassed(run.rule_results), Len(run.rule_results))

drifted_rules(run) == SelectSeq(run.rule_results, NotCompliant)

(* --------------------------- ValidationTracker ------------------------ *)
\* Rows carry the columns a tracker method writes with a value that varies
\* and reads back: reduction_pct, backstops_loaded, notes and description
\* keep one value throughout, and the timestamp of a test row is written
\* once and read only by test_progression, which returns it unprocessed.
\* clock is the latest reading of time.time() that was stored: a reading
\* that is stored nowhere (the TestRun timestamp, the first_seen argument of
\* classify_rule when the row exists) leaves no trace, and every later
\* reading may still be any later time.
VRet(op, result) == [op |-> op, result |-> result]

\* the three tables of the tracker's database
Tables(tests, results, rules) ==
    [validation_tests        |-> tests,
     validation_rule_results |-> results,
     validation_rules        |-> rules]

InitTracker ==
    /\ validation_tests = << >>
    /\ validation_rule_results = << >>
    /\ validation_rules = {}
    /\ vret = VRet("init", Null)
    /\ recorded = [tests |-> 0, results |-> 0,
                   first_seen |-> [r \in RuleIds |-> Null],
                   failed |-> {}]
    /\ validation_db = Tables(<< >>, << >>, {})

\* bug variant: INSERT OR REPLACE keyed by test_number
InsertTest_replace(tests, row) ==
    LET Other(t) == t.test_number # row.test_number
    IN  Append(SelectSeq(tests, Other), row)

\* INSERT INTO validation_tests: a new row with the next rowid
InsertTest(tests, row) == Append(tests, row)

\* bug variant: INSERT OR REPLACE, the row is written afresh on conflict
UpsertRuleTested_replace(rules, rule_id, now) ==
    {m \in rules : m.rule_id # rule_id}
        \cup {[rule_id       |-> rule_id,
                tier          |-> TIER_1,
                tier_evidence |-> "",
                first_seen    |-> Some(now),
                last_tested   |-> Some(now)]}

\* INSERT INTO validation_rules (rule_id, first_seen, last_tested)
\* ... ON CONFLICT(rule_id) DO UPDATE SET last_tested = ?
UpsertRuleTested(rules, rule_id, now) ==
    IF \E m \in rules : m.rule_id = rule_id
    THEN {IF m.rule_id = rule_id THEN [m EXCEPT !.last_tested = Some(now)]
          ELSE m : m \in rules}
    ELSE rules \cup {[rule_id       |-> rule_id,
                      tier          |-> TIER_1,
                      tier_evidence |-> "",
                      first_seen    |-> Some(now),
                      last_tested   |-> Some(now)]}

\* bug variant: INSERT OR IGNORE, an existing row keeps its tier
UpsertRuleTier_ignore(rules, rule_id, tier, evidence, now) ==
    IF \E m \in rules : m.rule_id = rule_id THEN rules
    ELSE rules \cup {[rule_id       |-> rule_id,
                      tier          |-> tier,
                      tier_evidence |-> evidence,
                      first_seen    |-> Some(now),
                      last_tested   |-> Null]}

\* INSERT INTO validation_rules (rule_id, tier, tier_evidence, first_seen)
\* ... ON CONFLICT(rule_id) DO UPDATE SET tier = ?, tier_evidence = ?
UpsertRuleTier(rules, rule_id, tier, evidence, now) ==
    IF \E m \in rules : m.rule_id = rule_id
    THEN {IF m.rule_id = rule_id
          THEN [m EXCEPT !.tier = tier, !.tier_evidence = evidence]
          ELSE m : m \in rules}
    ELSE rules \cup {[rule_id       |-> rule_id,
                      tier          |-> tier,
                      tier_evidence |-> evidence,
                      first_seen    |-> Some(now),
                      last_tested   |-> Null]}

\* the readings of time.time() in the loop of one record_test call, one per
\* rule result
Readings(n) ==
    {q \in [1..n -> Now] : \A i \in 1..(n - 1) : q[i] <= q[i + 1]}

RECURSIVE InsertResults(_, _, _, _)
\* bug variant: a rule id that already occurred in the list gets no row
InsertResults_once_per_rule(results, test_id, rule_results, i) ==
    IF i > Len(rule_results) THEN results
    ELSE IF \E j \in 1..(i - 1) : rule_results[j].rule_id = rule_results[i].rule_id
    THEN InsertResults(results, test_id, rule_results, i + 1)
    ELSE InsertResults(
            Append(results,
                   [id                   |-> Len(results) + 1,
                    test_id              |-> test_id,
                    rule_id              |-> rule_results[i].rule_id,
                    activated_correctly  |-> IF rule_results[i].activated_correctly THEN 1 ELSE 0,
                    suppressed_correctly |-> IF rule_results[i].suppressed_correctly THEN 1 ELSE 0,
                    output_compliant     |-> IF rule_results[i].output_compliant THEN 1 ELSE 0,
                    backstop_needed      |-> IF rule_results[i].backstop_needed THEN 1 ELSE 0,
                    notes                |-> rule_results[i].notes]),
            test_id, rule_results, i + 1)

\* the loop over rule_results: rows appended to validation_rule_results
InsertResults(results, test_id, rule_results, i) ==
    IF i > Len(rule_results) THEN results
    ELSE LET r == rule_results[i]
         IN  InsertResults(
                Append(results,
                       [id                   |-> Len(results) + 1,
                        test_id              |-> test_id,
                        rule_id              |-> r.rule_id,
                        activated_correctly  |-> IF r.activated_correctly THEN 1 ELSE 0,
                        suppressed_correctly |-> IF r.suppressed_correctly THEN 1 ELSE 0,
                        output_compliant     |-> IF r.output_compliant THEN 1 ELSE 0,
                        backstop_needed      |-> IF r.backstop_needed THEN 1 ELSE 0,
                        notes                |-> r.notes]),
                test_id, rule_results, i + 1)

RECURSIVE UpsertRules(_, _, _, _)
\* the loop over rule_results: the rule metadata upserts, q[i] being the
\* clock reading of iteration i
UpsertRules(rules, rule_results, q, i) ==
    IF i > Len(rule_results) THEN rules
    ELSE UpsertRules(UpsertRuleTested(rules, rule_results[i].rule_id, q[i]),
                     rule_results, q, i + 1)

\* first_seen each rule was created with (history)
NoteCreated(rules_after) ==
    [r \in RuleIds |->
        IF recorded.first_seen[r] # Null THEN recorded.first_seen[r]
        ELSE IF \E m \in rules_after : m.rule_id = r
             THEN (CHOOSE m \in rules_after : m.rule_id = r).first_seen
             ELSE Null]

record_test(test_number, stage, token_budget, rule_results) ==
    /\ Len(validation_tests) < MaxTests
    /\ \E q \in Readings(Len(rule_results)) :
        LET run == [test_number  |-> test_number,
                    stage        |-> stage,
                    token_budget |-> token_budget,
                    rule_results |-> rule_results]
            test_id == Len(validation_tests) + 1
            row == [id           |-> test_id,
                    test_number  |-> test_number,
                    stage        |-> stage,
                    token_budget |-> token_budget,
                    pass_rate    |-> pass_rate(run)]
            rules_after == UpsertRules(validation_rules, rule_results, q, 1)
        IN  /\ clock' = (IF rule_results = << >> THEN clock
                          ELSE q[Len(rule_results)])
            /\ validation_tests' = InsertTest(validation_tests, row)
            /\ validation_rule_results' =
                  InsertResults(validation_rule_results, test_id, rule_results, 1)
            /\ validation_rules' = rules_after
            \* self._conn.commit()
            /\ validation_db' = Tables(validation_tests',
                                       validation_rule_results',
                                       validation_rules')
            /\ vret' = VRet("record_test",
                             Some([test_number   |-> run.test_number,
                                   rule_results  |-> run.rule_results,
                                   pass_rate     |-> pass_rate(run),
                                   drifted_rules |-> drifted_rules(run)]))
            /\ recorded' = [recorded EXCEPT
                               !.tests = @ + 1,
                               !.results = @ + Len(rule_results),
                               !.first_seen = NoteCreated(rules_after)]
            /\ UNCHANGED <<bsvars, cbvars, othervars>>

classify_rule(rule_id, tier, evidence) ==
    \E now \in (IF \E m \in validation_rules : m.rule_id = rule_id
                THEN {clock} ELSE Now) :
        LET rules_after ==
                UpsertRuleTier(validation_rules, rule_id, tier, evidence, now)
        IN  /\ clock' = now
            /\ validation_rules' = rules_after
            \* self._conn.commit()
            /\ validation_db' = Tables(validation_tests,
                                       validation_rule_results,
                                       validation_rules')
            /\ vret' = VRet("classify_rule", Null)
            /\ recorded' = [recorded EXCEPT
                               !.first_seen = NoteCreated(rules_after)]
            /\ UNCHANGED <<validation_tests, validation_rule_results,
                           bsvars, cbvars, othervars>>

\* record_test on a list whose result k is the first with a rule_id of
\* None: the test row and the rows of the results before k are written, the
\* INSERT of result k raises IntegrityError, and record_test neither
\* commits nor rolls back
record_test_raises(test_number, stage, token_budget, rule_results) ==
    LET k == CHOOSE i \in 1..Len(rule_results) :
                /\ rule_results[i].rule_id = NoneId
                /\ \A j \in 1..(i - 1) : rule_results[j].rule_id # NoneId
        written == SubSeq(rule_results, 1, k - 1)
    IN  /\ Len(validation_tests) < MaxTests
        /\ \E i \in 1..Len(rule_results) : rule_results[i].rule_id = NoneId
        /\ \E q \in Readings(Len(written)) :
            LET run == [test_number  |-> test_number,
                        stage        |-> stage,
                        token_budget |-> token_budget,
                        rule_results |-> rule_results]
                test_id == Len(validation_tests) + 1
                row == [id           |-> test_id,
                        test_number  |-> test_number,
                        stage        |-> stage,
                        token_budget |-> token_budget,
                        pass_rate    |-> pass_rate(run)]
                rules_after == UpsertRules(validation_rules, written, q, 1)
            IN  /\ clock' = (IF written = << >> THEN clock
                              ELSE q[Len(written)])
                /\ validation_tests' = InsertTest(validation_tests, row)
                /\ validation_rule_results' =
                      InsertResults(validation_rule_results, test_id, written, 1)
                /\ validation_rules' = rules_after
                /\ vret' = VRet("record_test", Some("IntegrityError"))
                /\ recorded' = [recorded EXCEPT
                                   !.first_seen = NoteCreated(rules_after),
                                   !.failed = @ \cup {test_id}]
                /\ UNCHANGED <<validation_db, bsvars, cbvars, othervars>>

\* validation_rule_results JOIN validation_tests ON test_id = id
\* WHERE rule_id = ?, as the set of joined (result row, test row) pairs
HistoryJoin(rule_id) ==
    {[vrr |-> validation_rule_results[i], vt |-> validation_tests[j]] :
        <<i, j>> \in
           {x \in (1..Len(validation_rule_results)) \X (1..Len(validation_tests)) :
               /\ validation_rule_results[x[1]].rule_id = rule_id
               /\ validation_rule_results[x[1]].test_id = validation_tests[x[2]].id}}

\* row_id is not a selected column: it tells apart the joined rows that
\* agree on every selected column, as the rows of a result list are
HistoryEntry(pair) ==
    [row_id               |-> pair.vrr.id,
     test_number          |-> pair.vt.test_number,
     stage                |-> pair.vt.stage,
     activated_correctly  |-> pair.vrr.activated_correctly,
     suppressed_correctly |-> pair.vrr.suppressed_correctly,
     output_compliant     |-> pair.vrr.output_compliant,
     backstop_needed      |-> pair.vrr.backstop_needed,
     notes                |-> pair.vrr.notes]

RECURSIVE OrderByTestNumber(_, _)
\* bug variant: no ORDER BY, the rows come in scan order or its reverse
OrderByTestNumber_unordered(entries, forward) ==
    IF entries = {} THEN << >>
    ELSE LET e == CHOOSE x \in entries : \A y \in entries :
                     IF forward THEN x.row_id <= y.row_id
                     ELSE x.row_id >= y.row_id
         IN  <<e>> \o OrderByTestNumber(entries \ {e}, forward)

\* ORDER BY vt.test_number.  The query fixes no order among rows with equal
\* test_number: they come in scan (rowid) order when forward, in reverse
\* scan order otherwise.
OrderByTestNumber(entries, forward) ==
    IF entries = {} THEN << >>
    ELSE LET firsts == {e \in entries :
                           \A f \in entries : e.test_number <= f.test_number}
             e == CHOOSE x \in firsts : \A y \in firsts :
                     IF forward THEN x.row_id <= y.row_id
                     ELSE x.row_id >= y.row_id
         IN  <<e>> \o OrderByTestNumber(entries \ {e}, forward)

HistoryOrders(rule_id) ==
    {OrderByTestNumber({HistoryEntry(p) : p \in HistoryJoin(rule_id)}, forward) :
        forward \in BOOLEAN}

rule_history(rule_id) ==
    \E h \in HistoryOrders(rule_id) :
        /\ vret' = VRet("rule_history", Some([rule_id |-> rule_id, rows |-> h]))
        /\ UNCHANGED <<clock, validation_tests, validation_rule_results,
                       validation_rules, recorded, validation_db, bsvars,
                   cbvars, othervars>>

\* ORDER BY rule_id over the rule identifiers of the model
RuleRank(rule_id) == IF rule_id = "energy_calibration" THEN 1 ELSE 2

\* validation_rule_results LEFT JOIN validation_rules, WHERE a flag is 0:
\* one joined row per (drifted result row, matching metadata row), in
\* result-row order; a result without metadata joins with NULLs
RECURSIVE DriftJoin(_)
DriftJoin(i) ==
    IF i > Len(validation_rule_results) THEN << >>
    ELSE LET vrr == validation_rule_results[i]
             drifted == \/ vrr.output_compliant = 0
                        \/ vrr.activated_correctly = 0
                        \/ vrr.suppressed_correctly = 0
             meta == {m \in validation_rules : m.rule_id = vrr.rule_id}
             joined ==
                IF meta = {}
                THEN << [rule_id |-> vrr.rule_id, tier |-> Null,
                         tier_evidence |-> Null] >>
                ELSE << [rule_id |-> vrr.rule_id,
                         tier |-> Some(FetchOne(meta).tier),
                         tier_evidence |-> Some(FetchOne(meta).tier_evidence)] >>
         IN  (IF drifted THEN joined ELSE << >>) \o DriftJoin(i + 1)

RECURSIVE Distinct(_)
\* bug variant: the DISTINCT is missing
Distinct_none(rows) == rows

\* SELECT DISTINCT: the first occurrence of every row
Distinct(rows) ==
    IF rows = << >> THEN << >>
    ELSE LET rest == Distinct(SubSeq(rows, 1, Len(rows) - 1))
             last == rows[Len(rows)]
         IN  IF \E i \in 1..Len(rest) : rest[i] = last THEN rest
             ELSE Append(rest, last)

RECURSIVE OrderByRule(_)
\* ORDER BY rule_id (insertion sort, keeps the order of equal keys)
OrderByRule(rows) ==
    IF rows = << >> THEN << >>
    ELSE LET rest == OrderByRule(SubSeq(rows, 1, Len(rows) - 1))
             last == rows[Len(rows)]
             k == Cardinality({i \in 1..Len(rest) :
                      RuleRank(rest[i].rule_id) <= RuleRank(last.rule_id)})
         IN  SubSeq(rest, 1, k) \o <<last>> \o SubSeq(rest, k + 1, Len(rest))

Tier2Candidates == OrderByRule(Distinct(DriftJoin(1)))

tier2_candidates ==
    /\ vret' = VRet("tier2_candidates", Some(Tier2Candidates))
    /\ UNCHANGED <<clock, validation_tests, validation_rule_results,
                   validation_rules, recorded, validation_db, bsvars,
                   cbvars, othervars>>

\* SELECT ... FROM validation_tests ORDER BY test_number DESC LIMIT 1:
\* a row with the largest test_number, any of them when several have it
LatestTests ==
    IF validation_tests = << >> THEN {Null}
    ELSE {Some([test_number |-> validation_tests[i].test_number,
                stage       |-> validation_tests[i].stage,
                pass_rate   |-> validation_tests[i].pass_rate]) :
            i \in {k \in 1..Len(validation_tests) :
                     \A j \in 1..Len(validation_tests) :
                        validation_tests[j].test_number
                           <= validation_tests[k].test_number}}

TrackerStats(latest) ==
    [total_tests |-> Len(validation_tests),
     total_rules |-> Cardinality(validation_rules),
     tier2_rules |-> Cardinality({m \in validation_rules : m.tier = TIER_2}),
     latest_test |-> latest]

tracker_stats ==
    /\ \E latest \in LatestTests : vret' = VRet("stats", Some(TrackerStats(latest)))
    /\ UNCHANGED <<clock, validation_tests, validation_rule_results,
                   validation_rules, recorded, validation_db, bsvars,
                   cbvars, othervars>>

(* --------------------------- ValidationSession ------------------------ *)
\* ValidationSession(db_path): no connection yet
InitSession ==
    /\ session = [pc |-> "new", tracker |-> FALSE, backstops |-> FALSE,
                  exc |-> FALSE, error |-> "none"]
    /\ handles = [tracker |-> "none", backstops |-> "none"]

\* where the with statement can fail while it enters: sqlite3.connect or
\* _init_schema of either constructor
EnterOutcomes ==
    {"tracker_connect", "tracker_schema", "backstops_connect",
     "backstops_schema", "ok"}
\* Connection.close() of each handle returns or raises
CloseOutcomes == {"ok", "tracker_close", "backstops_close"}

\* __enter__.  A constructor that raises leaves self.tracker / self.backstops
\* as they were, and the with statement does not call __exit__ when
\* __enter__ raises.
enter(outcome) ==
    /\ session.pc = "new"
    /\ handles' =
          [tracker   |-> IF outcome = "tracker_connect" THEN "none" ELSE "open",
           backstops |-> IF outcome \in {"backstops_schema", "ok"}
                         THEN "open" ELSE "none"]
    /\ session' =
          [session EXCEPT
              !.pc = IF outcome = "ok" THEN "block" ELSE "left",
              !.tracker = outcome \in {"backstops_connect", "backstops_schema", "ok"},
              !.backstops = (outcome = "ok"),
              !.error = IF outcome = "ok" THEN "none" ELSE "enter"]
    /\ UNCHANGED <<clock, bsvars, cbvars, vtvars, concvars, purevars>>

\* the block ends, normally or by an error (exc), and __exit__ runs: it
\* closes the tracker, then the backstop manager, and returns False.  A
\* close() that raises ends __exit__ there and leaves its connection open.
exit(exc, outcome) ==
    /\ session.pc = "block"
    /\ LET tracker_closed == session.tracker /\ outcome # "tracker_close"
           reached == ~session.tracker \/ tracker_closed
           backstops_closed ==
               reached /\ session.backstops /\ outcome # "backstops_close"
           raised == \/ session.tracker /\ outcome = "tracker_close"
                     \/ reached /\ session.backstops
                                /\ outcome = "backstops_close"
       IN  /\ handles' =
                 [tracker   |-> IF tracker_closed THEN "closed"
                                ELSE handles.tracker,
                  backstops |-> IF backstops_closed THEN "closed"
                                ELSE handles.backstops]
           /\ session' =
                 [session EXCEPT
                     !.pc = "left",
                     !.exc = exc,
                     !.error = IF raised THEN "close"
                               ELSE IF exc THEN "block" ELSE "none"]
    /\ UNCHANGED <<clock, bsvars, cbvars, vtvars, concvars, purevars>>

\* inside the block: session.tracker and session.backstops are used
InBlock == session.pc = "block"

(* --------------------------- classify_rule_tier ----------------------- *)
\* exact arithmetic on fractions with positive denominators
FracAdd(p, q) == Frac(p.num * q.den + q.num * p.den, p.den * q.den)
FracSub(p, q) == Frac(p.num * q.den - q.num * p.den, p.den * q.den)
FracMul(p, q) == Frac(p.num * q.num, p.den * q.den)
FracLeq(p, q) == p.num * q.den <= q.num * p.den
FracMin(p, q) == IF FracLeq(p, q) THEN p ELSE q
FracMax(p, q) == IF FracLeq(p, q) THEN q ELSE p

\* round(confidence, 2) in hundredths: the nearest hundredth, the even one
\* of two equally near.  For the signal counts of the model this is the
\* value round() returns on the float the code computes.
Round2(q) ==
    LET scaled == q.num * 100
        floor == scaled \div q.den
        twice == 2 * (scaled - floor * q.den)
    IN  IF twice > q.den \/ (twice = q.den /\ floor % 2 = 1)
        THEN floor + 1 ELSE floor

\* A rule text is a sequence of words.  The vocabulary has one word per
\* kind of match: "never" (a binary constraint of _TIER1_SIGNALS), "match"
\* (a multi-factor dependency of _TIER2_SIGNALS), the signature emoji
\* U+1F512 (the emoji pattern of _TIER1_SIGNALS and emoji_pattern) and
\* "story", which no pattern matches.
_TIER1_SIGNALS == {"never", "U+1F512"}
_TIER2_SIGNALS == {"match"}
emoji_pattern == {"U+1F512"}

Repeat(word, n) == [i \in 1..n |-> word]
RuleTexts ==
    {Repeat("never", a) \o Repeat("match", b) \o Repeat("U+1F512", c)
        \o Repeat("story", d) :
        <<a, b, c, d>> \in
            {x \in (0..MaxWords) \X (0..MaxWords) \X (0..1) \X (0..1) :
                x[1] + x[2] + x[3] + x[4] <= MaxWords}}

\* re.findall over the patterns of one table: the matches, in text order
findall(patterns, text) ==
    LET Hit(word) == word \in patterns
    IN  SelectSeq(text, Hit)

\* hits[:10]
Cap10(hits) == SubSeq(hits, 1, IF Len(hits) < 10 THEN Len(hits) ELSE 10)

\* bug variant: no cap at 0.95
Scored_uncapped(t1_score, t2_score) ==
    LET t2_ratio == Frac(t2_score, t1_score + t2_score)
    IN  IF FracLeq(Frac(6, 10), t2_ratio)
        THEN [tier |-> TIER_2, reasoning |-> "tier2_dominate",
              confidence |-> FracAdd(Frac(1, 2), FracMul(t2_ratio, Frac(1, 2)))]
        ELSE IF FracLeq(t2_ratio, Frac(3, 10))
        THEN [tier |-> TIER_1, reasoning |-> "tier1_dominate",
              confidence |-> FracAdd(Frac(1, 2),
                                     FracMul(FracSub(Frac(1, 1), t2_ratio),
                                             Frac(1, 2)))]
        ELSE [tier |-> TIER_2, reasoning |-> "mixed",
              confidence |-> Frac(1, 2)]

\* the tier and the confidence chosen from the signal ratio (total > 0)
Scored(t1_score, t2_score) ==
    LET t2_ratio == Frac(t2_score, t1_score + t2_score)
    IN  IF FracLeq(Frac(6, 10), t2_ratio)
        THEN [tier |-> TIER_2, reasoning |-> "tier2_dominate",
              confidence |-> FracMin(FracAdd(Frac(1, 2),
                                             FracMul(t2_ratio, Frac(1, 2))),
                                     Frac(95, 100))]
        ELSE IF FracLeq(t2_ratio, Frac(3, 10))
        THEN [tier |-> TIER_1, reasoning |-> "tier1_dominate",
              confidence |-> FracMin(FracAdd(Frac(1, 2),
                                             FracMul(FracSub(Frac(1, 1), t2_ratio),
                                                     Frac(1, 2))),
                                     Frac(95, 100))]
        ELSE [tier |-> TIER_2, reasoning |-> "mixed",
              confidence |-> Frac(1, 2)]

\* bug variant: an emoji anchor turns a Tier 2 result into Tier 1
Anchored_flips(scored, has_emoji) ==
    IF has_emoji /\ scored.tier = TIER_2
    THEN [tier |-> TIER_1, reasoning |-> scored.reasoning, note |-> TRUE,
          confidence |-> FracMax(FracSub(scored.confidence, Frac(15, 100)),
                                 Frac(35, 100))]
    ELSE [tier |-> scored.tier, reasoning |-> scored.reasoning,
          note |-> FALSE, confidence |-> scored.confidence]

\* the emoji signature step: confidence lowered, a note appended
Anchored(scored, has_emoji) ==
    IF has_emoji /\ scored.tier = TIER_2
    THEN [tier |-> scored.tier, reasoning |-> scored.reasoning, note |-> TRUE,
          confidence |-> FracMax(FracSub(scored.confidence, Frac(15, 100)),
                                 Frac(35, 100))]
    ELSE [tier |-> scored.tier, reasoning |-> scored.reasoning,
          note |-> FALSE, confidence |-> scored.confidence]

\* the dict returned; confidence in hundredths
classify_rule_tier(text) ==
    LET tier1_hits == findall(_TIER1_SIGNALS, text)
        tier2_hits == findall(_TIER2_SIGNALS, text)
        t1_score == Len(tier1_hits)
        t2_score == Len(tier2_hits)
        total == t1_score + t2_score
        has_emoji == \E i \in 1..Len(text) : text[i] \in emoji_pattern
        result == Anchored(Scored(t1_score, t2_score), has_emoji)
    IN  IF total = 0
        THEN [tier |-> TIER_1, confidence |-> 30,
              tier1_signals |-> << >>, tier2_signals |-> << >>,
              reasoning |-> "no_markers", note |-> FALSE]
        ELSE [tier |-> result.tier,
              confidence |-> Round2(result.confidence),
              tier1_signals |-> Cap10(tier1_hits),
              tier2_signals |-> Cap10(tier2_hits),
              reasoning |-> result.reasoning, note |-> result.note]

\* a caller classifies the text it holds
classify ==
    /\ classified = Null
    /\ classified' = Some(classify_rule_tier(rule_text))
    /\ UNCHANGED <<clock, bsvars, cbvars, vtvars, concvars, svars, rule_text,
                   packvars, abbrevvars, tokvars>>

(* ----------------------------- vocab packs ----------------------------- *)
\* A path is the sequence of its components; a file named directly is a
\* path of one component.
PackNames == {"marketing", "packs/legal.json"}

\* f"{pack_path_or_name}.json"
JsonName(name) ==
    CASE name = "marketing" -> "marketing.json"
      [] name = "packs/legal.json" -> "packs/legal.json.json"

\* os.path.join(os.path.dirname(os.path.abspath(__file__)), "..", "vocab_packs")
DefaultDirs == << "prompt_compress/../vocab_packs" >>

\* search_dirs as the caller passes it: left out, or a list
SearchDirs ==
    {Null, Some(<< >>), Some(<<"custom">>), Some(<<"custom", "shared">>),
     Some(<<"shared", "custom">>)}

\* the pack files a machine may hold
PackFiles ==
    {<<"packs/legal.json">>,
     <<"custom", "marketing.json">>,
     <<"shared", "marketing.json">>,
     <<"prompt_compress/../vocab_packs", "marketing.json">>}

\* json.load(f): the entries of each file, fields left out of an entry are Null
PackEntry(pattern, replacement, flags) ==
    [pattern |-> pattern, replacement |-> replacement, flags |-> flags]

ReadJson(pack_file) ==
    CASE pack_file = <<"packs/legal.json">> ->
            << PackEntry(Some("\\bforce majeure\\b"), Some("FM"), Some("vi")),
               PackEntry(Some("\\bindemnification\\b"), Null, Null) >>
      [] pack_file = <<"custom", "marketing.json">> ->
            << PackEntry(Some("\\bcost per click\\b"), Some("CPC"), Null) >>
      [] pack_file = <<"shared", "marketing.json">> -> << >>
      [] OTHER ->
            << PackEntry(Some("\\bSection\\b"), Some("U+00A7"), Some("a")),
               PackEntry(Some(""), Some("CTR"), Some("vi")) >>

\* os.path.isfile
isfile(path) == path \in files

\* for d in search_dirs: the first candidate that is a file, or None
RECURSIVE FirstCandidate(_, _)
FirstCandidate(search_dirs, name) ==
    IF search_dirs = << >> THEN Null
    ELSE LET candidate == << Head(search_dirs), JsonName(name) >>
         IN  IF isfile(candidate) THEN Some(candidate)
             ELSE FirstCandidate(Tail(search_dirs), name)

\* entry.get(key, default)
Get(field, default) == IF field = Null THEN default ELSE field[1]

\* the (pattern, replacement, flags) tuples of the entries that have a
\* pattern and a replacement
RECURSIVE Vocab(_)
Vocab(entries) ==
    IF entries = << >> THEN << >>
    ELSE LET entry == Head(entries)
             pattern == Get(entry.pattern, "")
             replacement == Get(entry.replacement, "")
             flags == Get(entry.flags, "vi")
         IN  (IF pattern # "" /\ replacement # ""
              THEN << <<pattern, replacement, flags>> >> ELSE << >>)
             \o Vocab(Tail(entries))

PackRet(name, dirs, raised, value) ==
    [pack_path_or_name |-> name, search_dirs |-> dirs,
     raised |-> raised, value |-> value]

FileNotFoundError(name, search_dirs) ==
    [type |-> "FileNotFoundError", pack |-> name, searched |-> search_dirs]

\* bug variant: a pack found nowhere loads as an empty vocabulary
load_vocab_pack_lenient(pack_path_or_name, dirs) ==
    LET search_dirs == IF dirs = Null THEN DefaultDirs ELSE dirs[1]
        pack_file ==
            IF isfile(<<pack_path_or_name>>) THEN Some(<<pack_path_or_name>>)
            ELSE FirstCandidate(search_dirs, pack_path_or_name)
    IN  /\ pack_ret' =
              IF pack_file = Null
              THEN PackRet(pack_path_or_name, dirs, Null, Some(<< >>))
              ELSE PackRet(pack_path_or_name, dirs, Null,
                           Some(Vocab(ReadJson(pack_file[1]))))
        /\ UNCHANGED <<clock, bsvars, cbvars, vtvars, concvars, svars, tiervars,
                       files, abbrevvars, tokvars>>

load_vocab_pack(pack_path_or_name, dirs) ==
    LET search_dirs == IF dirs = Null THEN DefaultDirs ELSE dirs[1]
        pack_file ==
            IF isfile(<<pack_path_or_name>>) THEN Some(<<pack_path_or_name>>)
            ELSE FirstCandidate(search_dirs, pack_path_or_name)
    IN  /\ pack_ret' =
              IF pack_file = Null
              THEN PackRet(pack_path_or_name, dirs,
                           Some(FileNotFoundError(pack_path_or_name,
                                                  search_dirs)),
                           Null)
              ELSE PackRet(pack_path_or_name, dirs, Null,
                           Some(Vocab(ReadJson(pack_file[1]))))
        /\ UNCHANGED <<clock, bsvars, cbvars, vtvars, concvars, svars, tiervars,
                       files, abbrevvars, tokvars>>

(* ------------------------------ compress ------------------------------ *)
\* A text is one YAML line, `key: fragment fragment ...`: the key and the
\* fragments of its value, each a word or a phrase, one space apart.
Keys == {"note", "return_on_investment"}
Fragments ==
    {"user knowledge", "userknowledge", "user_knowledge",
     "Return on Investment", "Section", "plan"}
Line(key, value) == [key |-> key, value |-> value]
Lines ==
    {Line(k, v) : k \in Keys,
                  v \in UNION {[1..n -> Fragments] : n \in 0..MaxFragments}}

VocabRule(pattern, replacement, flags) ==
    [pattern |-> pattern, replacement |-> replacement, flags |-> flags]

\* the rules of ABBREV_VOCAB that match a key or a fragment, in its order
ABBREV_VOCAB ==
    << VocabRule("\\buser[_\\s]?knowledge\\b", "user_knowledge", "a"),
       VocabRule("\\breturn[_\\s]on[_\\s]investment\\b", "ROI", "vi"),
       VocabRule("\\bsearch[_\\s]engine[_\\s]optimization\\b", "SEO", "vi"),
       VocabRule("\\bSection\\b", "U+00A7", "a") >>

\* extra_vocab as the caller passes it: left out, or one rule
ExtraVocabs == {Null, Some(<< VocabRule("\\bplan\\b", "pln", "vi") >>)}

\* 'i' in flags, 'v' in flags
HasFlag(flags, f) == flags = "vi" /\ f \in {"v", "i"}

\* the pattern matches the whole of the word or phrase (re.search with
\* case_flag); no pattern matches a part of one or across two
Matches(pattern, word, ignorecase) ==
    \/ /\ pattern = "\\buser[_\\s]?knowledge\\b"
       /\ word \in {"user knowledge", "userknowledge", "user_knowledge"}
    \/ /\ pattern = "\\breturn[_\\s]on[_\\s]investment\\b"
       /\ \/ word = "return_on_investment"
          \/ ignorecase /\ word = "Return on Investment"
    \/ pattern = "\\bSection\\b" /\ word = "Section"
    \/ pattern = "\\bplan\\b" /\ word = "plan"

\* re.findall over the line: the key, the colon, then a space and the
\* chunks of each fragment
RECURSIVE ValueChunks(_)
ValueChunks(value) ==
    IF value = << >> THEN << >>
    ELSE << <<"s", 1, 0>> >> \o Chunks(Head(value))
            \o ValueChunks(Tail(value))

LineChunks(line) ==
    Chunks(line.key) \o << <<"p", 1, 0>> >> \o ValueChunks(line.value)

\* estimate_tokens of the line
LineTokens(line) == Max(1, SumTokens(LineChunks(line)))

\* re.search(pattern, result): the first match, in the key or in the value
sample_match(rule, line) ==
    LET i == HasFlag(rule.flags, "i")
        hits == {j \in 1..Len(line.value) :
                    Matches(rule.pattern, line.value[j], i)}
    IN  IF Matches(rule.pattern, line.key, i) THEN Some(line.key)
        ELSE IF hits = {} THEN Null
        ELSE Some(line.value[CHOOSE j \in hits : \A k \in hits : j <= k])

\* replacement_tokens >= matched_tokens for the sample match
FloorGuard(rule, line) ==
    /\ sample_match(rule, line) # Null
    /\ estimate_tokens(rule.replacement) >=
          estimate_tokens(sample_match(rule, line)[1])

\* one turn of the loop over vocab; st.replaced is history, the matched
\* text and the replacement of every substitution made
ApplyRule(rule, st) ==
    LET i == HasFlag(rule.flags, "i")
        line == Line(st.key, st.value)
        \* values only: the key part of the line is kept
        in_key == ~HasFlag(rule.flags, "v") /\ Matches(rule.pattern, st.key, i)
        hits == {j \in 1..Len(st.value) :
                    Matches(rule.pattern, st.value[j], i)}
        count == Cardinality(hits) + (IF in_key THEN 1 ELSE 0)
    IN  IF FloorGuard(rule, line)
        THEN [st EXCEPT !.skipped_floor = @ + 1]
        ELSE [key |-> IF in_key THEN rule.replacement ELSE st.key,
              value |-> [j \in 1..Len(st.value) |->
                           IF j \in hits THEN rule.replacement
                           ELSE st.value[j]],
              total_subs |-> st.total_subs + count,
              abbrev_set |-> IF count > 0
                             THEN st.abbrev_set \cup {rule.replacement}
                             ELSE st.abbrev_set,
              skipped_floor |-> st.skipped_floor,
              replaced |-> st.replaced
                  \cup {<<st.value[j], rule.replacement>> : j \in hits}
                  \cup (IF in_key THEN {<<st.key, rule.replacement>>}
                        ELSE {})]

RECURSIVE ApplyVocab(_, _)
ApplyVocab(vocab, st) ==
    IF vocab = << >> THEN st
    ELSE ApplyVocab(Tail(vocab), ApplyRule(Head(vocab), st))

apply_abbreviation(line, extra_vocab) ==
    LET vocab == IF extra_vocab # Null /\ extra_vocab[1] # << >>
                 THEN extra_vocab[1] \o ABBREV_VOCAB ELSE ABBREV_VOCAB
    IN  ApplyVocab(vocab,
                   [key |-> line.key, value |-> line.value, total_subs |-> 0,
                    abbrev_set |-> {}, skipped_floor |-> 0, replaced |-> {}])

\* round(x, 1) of an exact fraction, in tenths
Round1(q) ==
    LET scaled == q.num * 10
        floor == scaled \div q.den
        twice == 2 * (scaled - floor * q.den)
    IN  IF twice > q.den \/ (twice = q.den /\ floor % 2 = 1)
        THEN floor + 1 ELSE floor

\* compress(text, abbreviate, extra_vocab); savings_pct is in tenths of a
\* percent
CompressResult(line, abbreviate, extra_vocab) ==
    LET original_tokens == LineTokens(line)
        out == apply_abbreviation(line, extra_vocab)
        new_text == IF abbreviate THEN Line(out.key, out.value) ELSE line
        compressed_tokens == LineTokens(new_text)
    IN  [text |-> new_text,
         original_tokens |-> original_tokens,
         compressed_tokens |-> compressed_tokens,
         savings_pct |->
            IF original_tokens # 0
            THEN Round1(Frac((original_tokens - compressed_tokens) * 100,
                             original_tokens))
            ELSE 0,
         substitutions |-> IF abbreviate THEN out.total_subs ELSE 0,
         unique_abbrevs |->
            IF abbreviate THEN Cardinality(out.abbrev_set) ELSE 0,
         skipped_floor_guard |-> IF abbreviate THEN out.skipped_floor ELSE 0,
         layers_applied |->
            IF abbreviate THEN <<"abbreviation">> ELSE << >>,
         replaced |-> IF abbreviate THEN out.replaced ELSE {}]

compress ==
    /\ compress_in # Null
    /\ compress_ret = Null
    /\ compress_ret' = Some(CompressResult(compress_in[1].text,
                                           compress_in[1].abbreviate,
                                           compress_in[1].extra_vocab))
    /\ UNCHANGED <<clock, bsvars, cbvars, vtvars, concvars, svars, tiervars, packvars,
                   compress_in, tokvars>>

(* -------------------------- extract_patterns -------------------------- *)
\* A compressed prompt is a sequence of lines; an emoji is written by its
\* code point.
ExtractLines ==
    {"goal: improve SEO", "  U+1F512 never share U+1F511", "# SEO U+1F512"}
ExtractTexts ==
    {<<l>> : l \in ExtractLines}
       \cup {<<"goal: improve SEO", "  U+1F512 never share U+1F511">>}

\* the words and emoji of a line, in order
LineWords(line) ==
    CASE line = "goal: improve SEO" -> <<"goal", ":", "improve", "SEO">>
      [] line = "  U+1F512 never share U+1F511" ->
            <<"U+1F512", "never", "share", "U+1F511">>
      [] line = "# SEO U+1F512" -> <<"#", "SEO", "U+1F512">>

\* line.strip()
Strip(line) ==
    IF line = "  U+1F512 never share U+1F511"
    THEN "U+1F512 never share U+1F511" ELSE line

\* stripped.startswith('#')
IsComment(stripped) == stripped = "# SEO U+1F512"

\* the texts extract_patterns can store as a pattern
LineOriginals == {Strip(l) : l \in {m \in ExtractLines : ~IsComment(Strip(m))}}

\* ABBREV_EXPANSIONS.get(replacement)
ABBREV_EXPANSIONS(replacement) ==
    CASE replacement = "ROI" -> Some("Return on Investment")
      [] replacement = "SEO" -> Some("Search Engine Optimization")
      [] replacement = "U+00A7" -> Some("Section")
      [] OTHER -> Null

\* re.search(r'\b' + re.escape(replacement) + r'\b', compressed_text)
SearchWord(replacement, compressed_text) ==
    \E i \in 1..Len(compressed_text) :
        \E j \in 1..Len(LineWords(compressed_text[i])) :
            LineWords(compressed_text[i])[j] = replacement

\* the record_pattern calls of the loop over ABBREV_VOCAB, as
\* <<original, compressed>>
RECURSIVE AbbrevCalls(_, _)
AbbrevCalls(vocab, compressed_text) ==
    IF vocab = << >> THEN << >>
    ELSE LET replacement == Head(vocab).replacement
             expansion == ABBREV_EXPANSIONS(replacement)
         IN  (IF /\ replacement # "user_knowledge"
                 /\ SearchWord(replacement, compressed_text)
                 /\ expansion # Null /\ expansion # Some("")
              THEN << <<expansion[1], replacement>> >> ELSE << >>)
             \o AbbrevCalls(Tail(vocab), compressed_text)

\* emoji_pattern.findall(line): the emoji of the line, in order
RECURSIVE EmojiIn(_)
EmojiIn(words) ==
    IF words = << >> THEN << >>
    ELSE (IF Head(words) \in {"U+1F512", "U+1F511"}
          THEN << Head(words) >> ELSE << >>) \o EmojiIn(Tail(words))

\* bug variant: a line is recorded once, under its first emoji
LineCalls_first(line) ==
    LET emojis_in_line == EmojiIn(LineWords(line))
    IN  IF emojis_in_line = << >> \/ Strip(line) = "" \/ IsComment(Strip(line))
        THEN << >>
        ELSE << <<Strip(line), emojis_in_line[1]>> >>

\* the record_pattern calls made for one line
LineCalls(line) ==
    LET emojis_in_line == EmojiIn(LineWords(line))
    IN  IF emojis_in_line = << >> \/ Strip(line) = "" \/ IsComment(Strip(line))
        THEN << >>
        ELSE [k \in 1..Len(emojis_in_line) |->
                 <<Strip(line), emojis_in_line[k]>>]

RECURSIVE EmojiCalls(_)
EmojiCalls(lines) ==
    IF lines = << >> THEN << >>
    ELSE LineCalls(Head(lines)) \o EmojiCalls(Tail(lines))

ExtractCalls(compressed_text) ==
    AbbrevCalls(ABBREV_VOCAB, compressed_text) \o EmojiCalls(compressed_text)

\* the ids uuid4 hands out, in the order it does
IdOrders ==
    {q \in [1..Cardinality(PatternIds) -> PatternIds] :
        \A i, j \in 1..Cardinality(PatternIds) : i # j => q[i] # q[j]}

\* the table after one record_pattern(original, compressed, entry_id) read
\* the clock as now; a new row takes the first id of ids not yet stored
RecordedTable(cb, original, compressed, entry_id, now, ids) ==
    LET found == {p \in cb : p.pattern_text = original}
        free == {i \in 1..Len(ids) : \A p \in cb : p.id # ids[i]}
    IN  IF found # {}
        THEN LET existing == FetchOne(found)
             IN  {IF p.id = existing.id
                  THEN [p EXCEPT
                          !.times_seen = @ + 1,
                          !.last_seen_at = now,
                          !.source_entry_ids =
                              AppendId(existing.source_entry_ids, entry_id),
                          !.warm_form = compressed,
                          !.token_cost_warm = estimate_tokens(compressed)]
                  ELSE p : p \in cb}
        ELSE cb \cup
               {[id                  |-> ids[CHOOSE i \in free :
                                               \A k \in free : i <= k],
                 pattern_text        |-> original,
                 warm_form           |-> compressed,
                 hot_form            |-> Null,
                 stage               |-> COLD,
                 token_cost_original |-> estimate_tokens(original),
                 token_cost_warm     |-> estimate_tokens(compressed),
                 times_seen          |-> 1,
                 confidence          |-> 0,
                 first_seen_at       |-> now,
                 last_seen_at        |-> now,
                 source_entry_ids    |-> <<entry_id>>]}

\* the table after the calls, call k reading the clock as q[k]
RECURSIVE RecordAll(_, _, _, _, _)
RecordAll(cb, made, q, entry_id, ids) ==
    IF made = << >> THEN cb
    ELSE RecordAll(RecordedTable(cb, Head(made)[1], Head(made)[2],
                                 entry_id, Head(q), ids),
                   Tail(made), Tail(q), entry_id, ids)

CallsFor(made, original) ==
    Cardinality({k \in 1..Len(made) : made[k][1] = original})

extract_patterns(compressed_text, entry_id) ==
    LET made == ExtractCalls(compressed_text)
        texts == {p.pattern_text : p \in compression_codebook}
                    \cup {made[k][1] : k \in 1..Len(made)}
    IN  /\ Cardinality(texts) <= Cardinality(PatternIds)
        /\ \A p \in compression_codebook :
              p.times_seen + CallsFor(made, p.pattern_text) <= MaxSeen
        /\ \A o \in texts : CallsFor(made, o) <= MaxSeen
        /\ \E q \in Readings(Len(made)), ids \in IdOrders :
             /\ clock' = IF made = << >> THEN clock ELSE q[Len(made)]
             /\ compression_codebook' =
                   RecordAll(compression_codebook, made, q, entry_id, ids)
             /\ cbret' = CbRet("extract_patterns", Some(Len(made)))
             /\ observed' =
                   [o \in AllOriginals |->
                      IF CallsFor(made, o) = 0 THEN observed[o]
                      ELSE [n     |-> observed[o].n + CallsFor(made, o),
                            ids   |-> observed[o].ids \cup {entry_id},
                            rets  |-> observed[o].rets \cup
                                         {p.id : p \in
                                            {r \in compression_codebook' :
                                                r.pattern_text = o}},
                            other |-> observed[o].other]]
        /\ UNCHANGED <<bsvars, vtvars, othervars>>

(* --------------------- estimate_tokens, the encoder -------------------- *)
\* how the one attempt to load the encoder ends: tiktoken cannot be
\* imported, claude.json is no file, claude.json does not parse, or the
\* encoder is built
LoadOutcomes == {"ImportError", "no claude.json", "bad claude.json", "loaded"}
\* enc.encode(text) returns or raises
EncodeOutcomes == {"ok", "error"}
EstimateTexts ==
    {"", "SEO", "ROI", "Search Engine Optimization", "Return on Investment"}

\* len(enc.encode(text)) for the texts of the model, the counts the
\* comments of ABBREV_EXPANSIONS give
ClaudeTokens(text) ==
    CASE text = "SEO" -> 2
      [] text = "ROI" -> 1
      [] text = "Search Engine Optimization" -> 3
      [] text = "Return on Investment" -> 3

Estimate(text, by, value) == [text |-> text, by |-> by, value |-> value]

\* bug variant: the flag is set only once the encoder is built, so a failed
\* load is tried again by the next call
call_estimate_tokens_retries(text) ==
    /\ Len(estimates) < MaxCalls
    /\ IF text = ""
       THEN /\ estimates' = Append(estimates, Estimate(text, "empty", 0))
            /\ UNCHANGED <<_claude_encoder, _claude_encoder_loaded,
                           load_attempts>>
       ELSE \E load \in (IF _claude_encoder_loaded THEN {"none"}
                         ELSE LoadOutcomes),
               encode \in EncodeOutcomes :
               LET enc == IF _claude_encoder_loaded THEN _claude_encoder
                          ELSE IF load = "loaded" THEN Some("claude")
                          ELSE Null
               IN  /\ _claude_encoder_loaded' = (enc # Null)
                   /\ _claude_encoder' = enc
                   /\ load_attempts' =
                         IF _claude_encoder_loaded THEN load_attempts
                         ELSE Append(load_attempts,
                                     [outcome |-> load,
                                      call |-> Len(estimates) + 1])
                   /\ (enc = Null => encode = "ok")
                   /\ estimates' = Append(estimates,
                         IF enc # Null /\ encode = "ok"
                         THEN Estimate(text, "encoder", ClaudeTokens(text))
                         ELSE Estimate(text, "heuristic",
                                       estimate_tokens(text)))
    /\ UNCHANGED <<clock, bsvars, cbvars, vtvars, concvars, svars, tiervars, packvars,
                   abbrevvars>>

\* estimate_tokens(text) with _get_claude_encoder(); load_attempts and
\* estimates are history: the load attempts made and what each call returned
call_estimate_tokens(text) ==
    /\ Len(estimates) < MaxCalls
    /\ IF text = ""
       THEN /\ estimates' = Append(estimates, Estimate(text, "empty", 0))
            /\ UNCHANGED <<_claude_encoder, _claude_encoder_loaded,
                           load_attempts>>
       ELSE \E load \in (IF _claude_encoder_loaded THEN {"none"}
                         ELSE LoadOutcomes),
               encode \in EncodeOutcomes :
               LET enc == IF _claude_encoder_loaded THEN _claude_encoder
                          ELSE IF load = "loaded" THEN Some("claude")
                          ELSE Null
               IN  /\ _claude_encoder_loaded' = TRUE
                   /\ _claude_encoder' = enc
                   /\ load_attempts' =
                         IF _claude_encoder_loaded THEN load_attempts
                         ELSE Append(load_attempts,
                                     [outcome |-> load,
                                      call |-> Len(estimates) + 1])
                   \* without an encoder nothing is encoded
                   /\ (enc = Null => encode = "ok")
                   /\ estimates' = Append(estimates,
                         IF enc # Null /\ encode = "ok"
                         THEN Estimate(text, "encoder", ClaudeTokens(text))
                         ELSE Estimate(text, "heuristic",
                                       estimate_tokens(text)))
    /\ UNCHANGED <<clock, bsvars, cbvars, vtvars, concvars, svars, tiervars, packvars,
                   abbrevvars>>

(* ------------------- two connections to one store --------------------- *)
\* Two processes each hold a BackstopManager and a Codebook on the same
\* database files. sqlite3 runs a SELECT outside any transaction; the first
\* INSERT or UPDATE of a call opens a transaction and takes the write lock
\* of the file, which commit() releases. While one connection holds the
\* lock the other's write waits, and raises OperationalError("database is
\* locked") when the wait times out. A connection reads what was committed
\* and its own open transaction.
Writers == {"w1", "w2"}
EntryOf(w) == IF w = "w1" THEN "test1" ELSE "test2"
SharedRule == "tone_rule"
SharedOriginal == "Return on Investment"
SharedForm == "ROI"
SharedTexts == {"Our SEO strategy improved ROI", "SEO audit"}

Idle == [pc |-> "idle", activated |-> FALSE, now |-> 0, existing |-> Null,
         cid |-> Null, hits |-> {}, txn |-> Null]

InitWriters ==
    /\ connections = [w \in Writers |-> Idle]
    /\ completed = [begun |-> 0,
                    by    |-> [w \in Writers |-> 0],
                    seen  |-> [i \in PatternIds |-> 0]]

\* the tables as committed
Committed ==
    [backstop_entries     |-> backstop_entries,
     backstop_activations |-> backstop_activations,
     compression_codebook |-> compression_codebook]

\* another connection holds the write lock
Locked(w) == \E v \in Writers \ {w} : connections[v].txn # Null

Begin == [completed EXCEPT !.begun = @ + 1]
Return(w, ids) ==
    [completed EXCEPT !.by[w] = @ + 1,
                      !.seen = [i \in PatternIds |->
                                   @[i] + (IF i \in ids THEN 1 ELSE 0)]]

\* bug variant: the INSERT does not wait for the other connection's
\* transaction
ra_insert_unlocked(w, activated) ==
    LET event == [id          |-> Len(backstop_activations) + 1,
                  backstop_id |-> BackstopId(SharedRule),
                  test_number |-> Null,
                  activated   |-> IF activated THEN 1 ELSE 0,
                  notes       |-> ""]
    IN  /\ connections[w].pc = "idle"
        /\ completed.begun < MaxWrites
        /\ connections' = [connections EXCEPT ![w] =
              [Idle EXCEPT !.pc = "ra_update", !.activated = activated,
                           !.txn = Some([Committed EXCEPT
                               !.backstop_activations = Append(@, event)])]]
        /\ completed' = Begin
        /\ UNCHANGED <<clock, bsvars, cbvars, vtvars, svars, purevars>>

\* record_activation: INSERT INTO backstop_activations
ra_insert(w, activated) ==
    LET event == [id          |-> Len(backstop_activations) + 1,
                  backstop_id |-> BackstopId(SharedRule),
                  test_number |-> Null,
                  activated   |-> IF activated THEN 1 ELSE 0,
                  notes       |-> ""]
    IN  /\ connections[w].pc = "idle"
        /\ completed.begun < MaxWrites
        /\ ~Locked(w)
        /\ connections' = [connections EXCEPT ![w] =
              [Idle EXCEPT !.pc = "ra_update", !.activated = activated,
                           !.txn = Some([Committed EXCEPT
                               !.backstop_activations = Append(@, event)])]]
        /\ completed' = Begin
        /\ UNCHANGED <<clock, bsvars, cbvars, vtvars, svars, purevars>>

\* record_activation: the INSERT gives up waiting for the lock
ra_locked(w) ==
    /\ connections[w].pc = "idle"
    /\ completed.begun < MaxWrites
    /\ Locked(w)
    /\ ret' = Ret("record_activation", SharedRule, "OperationalError", Null)
    /\ completed' = Begin
    /\ UNCHANGED <<clock, backstop_entries, backstop_activations, calls,
                   cbvars, vtvars, svars, purevars, connections>>

\* record_activation: UPDATE backstop_entries SET test_count = test_count
\* + 1, activation_count = activation_count + CASE ... END
ra_update(w) ==
    LET c == connections[w]
    IN  /\ c.pc = "ra_update"
        /\ connections' = [connections EXCEPT ![w] =
              [c EXCEPT !.pc = "ra_commit",
                        !.txn = Some([c.txn[1] EXCEPT !.backstop_entries =
                           {IF e.backstop_id = BackstopId(SharedRule)
                            THEN [e EXCEPT !.test_count = @ + 1,
                                           !.activation_count =
                                              @ + (IF c.activated THEN 1 ELSE 0)]
                            ELSE e : e \in @}])]]
        /\ UNCHANGED <<clock, bsvars, cbvars, vtvars, svars, purevars,
                       completed>>

\* record_activation: self._conn.commit() and return
ra_commit(w) ==
    LET c == connections[w]
    IN  /\ c.pc = "ra_commit"
        /\ backstop_entries' = c.txn[1].backstop_entries
        /\ backstop_activations' = c.txn[1].backstop_activations
        /\ ret' = Ret("record_activation", SharedRule, "None", Null)
        /\ calls' = IF c.activated
                    THEN [calls EXCEPT ![SharedRule].t = @ + 1]
                    ELSE [calls EXCEPT ![SharedRule].f = @ + 1]
        /\ connections' = [connections EXCEPT ![w] = Idle]
        /\ completed' = Return(w, {})
        /\ UNCHANGED <<clock, cbvars, vtvars, svars, purevars>>

\* record_pattern: now = utcnow() and SELECT id, times_seen,
\* source_entry_ids ... WHERE pattern_text = ?, fetchone()
rp_select(w) ==
    /\ connections[w].pc = "idle"
    /\ completed.begun < MaxWrites
    /\ \E now \in Now :
       \E existing \in (IF SelectPattern(SharedOriginal) = {} THEN {Null}
                        ELSE {Some(p) : p \in SelectPattern(SharedOriginal)}) :
          /\ clock' = now
          /\ connections' = [connections EXCEPT ![w] =
                [Idle EXCEPT !.pc = "rp_write", !.now = now,
                             !.existing = existing]]
    /\ completed' = Begin
    /\ UNCHANGED <<bsvars, cbvars, vtvars, svars, purevars>>

\* bug variant: the UPDATE stores the times_seen the SELECT returned plus
\* one
rp_write_rmw(w) ==
    LET c == connections[w]
        entry_id == EntryOf(w)
    IN  /\ c.pc = "rp_write"
        /\ ~Locked(w)
        /\ IF c.existing # Null
           THEN LET existing == c.existing[1]
                    old_ids == AppendId(existing.source_entry_ids, entry_id)
                IN  connections' = [connections EXCEPT ![w] =
                       [c EXCEPT !.pc = "rp_commit",
                          !.cid = Some(existing.id),
                          !.txn = Some([Committed EXCEPT !.compression_codebook =
                             {IF p.id = existing.id
                              THEN [p EXCEPT !.times_seen = existing.times_seen + 1,
                                             !.last_seen_at = c.now,
                                             !.source_entry_ids = old_ids,
                                             !.warm_form = SharedForm,
                                             !.token_cost_warm =
                                                estimate_tokens(SharedForm)]
                              ELSE p : p \in @}])]]
           ELSE \E cid \in PatternIds \ {p.id : p \in compression_codebook} :
                   connections' = [connections EXCEPT ![w] =
                       [c EXCEPT !.pc = "rp_commit",
                          !.cid = Some(cid),
                          !.txn = Some([Committed EXCEPT !.compression_codebook =
                             @ \cup
                             {[id                  |-> cid,
                               pattern_text        |-> SharedOriginal,
                               warm_form           |-> SharedForm,
                               hot_form            |-> Null,
                               stage               |-> COLD,
                               token_cost_original |->
                                   estimate_tokens(SharedOriginal),
                               token_cost_warm     |->
                                   estimate_tokens(SharedForm),
                               times_seen          |-> 1,
                               confidence          |-> 0,
                               first_seen_at       |-> c.now,
                               last_seen_at        |-> c.now,
                               source_entry_ids    |-> <<entry_id>>]}])]]
        /\ UNCHANGED <<clock, bsvars, cbvars, vtvars, svars, purevars,
                       completed>>

\* record_pattern: the UPDATE of the row the SELECT returned, or the INSERT
\* of a new row under a fresh id
rp_write(w) ==
    LET c == connections[w]
        entry_id == EntryOf(w)
    IN  /\ c.pc = "rp_write"
        /\ ~Locked(w)
        /\ IF c.existing # Null
           THEN LET existing == c.existing[1]
                    old_ids == AppendId(existing.source_entry_ids, entry_id)
                IN  connections' = [connections EXCEPT ![w] =
                       [c EXCEPT !.pc = "rp_commit",
                          !.cid = Some(existing.id),
                          !.txn = Some([Committed EXCEPT !.compression_codebook =
                             {IF p.id = existing.id
                              THEN [p EXCEPT !.times_seen = @ + 1,
                                             !.last_seen_at = c.now,
                                             !.source_entry_ids = old_ids,
                                             !.warm_form = SharedForm,
                                             !.token_cost_warm =
                                                estimate_tokens(SharedForm)]
                              ELSE p : p \in @}])]]
           ELSE \E cid \in PatternIds \ {p.id : p \in compression_codebook} :
                   connections' = [connections EXCEPT ![w] =
                       [c EXCEPT !.pc = "rp_commit",
                          !.cid = Some(cid),
                          !.txn = Some([Committed EXCEPT !.compression_codebook =
                             @ \cup
                             {[id                  |-> cid,
                               pattern_text        |-> SharedOriginal,
                               warm_form           |-> SharedForm,
                               hot_form            |-> Null,
                               stage               |-> COLD,
                               token_cost_original |->
                                   estimate_tokens(SharedOriginal),
                               token_cost_warm     |->
                                   estimate_tokens(SharedForm),
                               times_seen          |-> 1,
                               confidence          |-> 0,
                               first_seen_at       |-> c.now,
                               last_seen_at        |-> c.now,
                               source_entry_ids    |-> <<entry_id>>]}])]]
        /\ UNCHANGED <<clock, bsvars, cbvars, vtvars, svars, purevars,
                       completed>>

\* record_pattern, update_usage: the write gives up waiting for the lock
cb_locked(w) ==
    /\ connections[w].pc \in {"rp_write", "uu_write"}
    /\ Locked(w)
    /\ cbret' = CbRet(IF connections[w].pc = "rp_write"
                      THEN "record_pattern" ELSE "update_usage",
                      Some("OperationalError"))
    /\ connections' = [connections EXCEPT ![w] = Idle]
    /\ UNCHANGED <<clock, bsvars, compression_codebook, observed, vtvars,
                   svars, purevars, completed>>

\* record_pattern: self.conn.commit() and return of the row id
rp_commit(w) ==
    LET c == connections[w]
        cid == c.cid[1]
    IN  /\ c.pc = "rp_commit"
        /\ compression_codebook' = c.txn[1].compression_codebook
        /\ cbret' = CbRet("record_pattern", Some(cid))
        /\ observed' = Observe(SharedOriginal, EntryOf(w), cid)
        /\ connections' = [connections EXCEPT ![w] = Idle]
        /\ completed' = Return(w, {cid})
        /\ UNCHANGED <<clock, bsvars, vtvars, svars, purevars>>

\* update_usage: SELECT id, warm_form, hot_form, stage ..., fetchall(), and
\* the rows whose form is in active_text; without such a row the call
\* returns 0
uu_select(w, active_text) ==
    LET check_form(row) ==
            IF row.hot_form # Null /\ row.stage = HOT
            THEN row.hot_form[1] ELSE row.warm_form
        hits == {row.id : row \in {r \in compression_codebook :
                    /\ check_form(r) # ""
                    /\ Contains(active_text, check_form(r))}}
    IN  /\ connections[w].pc = "idle"
        /\ completed.begun < MaxWrites
        /\ IF hits = {}
           THEN /\ cbret' = CbRet("update_usage", Some(0))
                /\ completed' = [Return(w, {}) EXCEPT !.begun = @ + 1]
                /\ UNCHANGED <<clock, connections>>
           ELSE \E now \in Now :
                   /\ clock' = now
                   /\ connections' = [connections EXCEPT ![w] =
                         [Idle EXCEPT !.pc = "uu_write", !.now = now,
                                      !.hits = hits]]
                   /\ completed' = Begin
                   /\ UNCHANGED cbret
        /\ UNCHANGED <<bsvars, compression_codebook, observed, vtvars, svars,
                       purevars>>

\* update_usage: UPDATE ... SET times_seen = times_seen + 1, last_seen_at
\* = ? WHERE id = ?, once per row found
uu_write(w) ==
    LET c == connections[w]
    IN  /\ c.pc = "uu_write"
        /\ ~Locked(w)
        /\ connections' = [connections EXCEPT ![w] =
              [c EXCEPT !.pc = "uu_commit",
                        !.txn = Some([Committed EXCEPT !.compression_codebook =
                           {IF row.id \in c.hits
                            THEN [row EXCEPT !.times_seen = @ + 1,
                                             !.last_seen_at = c.now]
                            ELSE row : row \in @}])]]
        /\ UNCHANGED <<clock, bsvars, cbvars, vtvars, svars, purevars,
                       completed>>

\* update_usage: self.conn.commit() and return of the number of rows
uu_commit(w) ==
    LET c == connections[w]
    IN  /\ c.pc = "uu_commit"
        /\ compression_codebook' = c.txn[1].compression_codebook
        /\ cbret' = CbRet("update_usage", Some(Cardinality(c.hits)))
        /\ observed' = [o \in AllOriginals |->
                          [observed[o] EXCEPT !.other =
                              @ \/ \E row \in compression_codebook :
                                      row.id \in c.hits /\ row.pattern_text = o]]
        /\ connections' = [connections EXCEPT ![w] = Idle]
        /\ completed' = Return(w, c.hits)
        /\ UNCHANGED <<clock, bsvars, vtvars, svars, purevars>>

\* the stores and the session as constructed
InitStores ==
    /\ clock = 0
    /\ InitBackstop
    /\ InitCodebook
    /\ InitTracker
    /\ InitSession
    /\ InitWriters

\* nothing to classify, no pack file, nothing to compress
IdleClassify == rule_text = << >> /\ classified = Null
IdlePack == files = {} /\ pack_ret = Null
IdleCompress == compress_in = Null /\ compress_ret = Null
\* the tokenizer module as imported
InitTokenizer ==
    /\ _claude_encoder = Null
    /\ _claude_encoder_loaded = FALSE
    /\ load_attempts = << >>
    /\ estimates = << >>

Init ==
    /\ InitStores
    /\ IdleClassify
    /\ IdlePack
    /\ IdleCompress
    /\ InitTokenizer

NextBackstop ==
    \/ \E r \in RuleIds, t \in Texts : create(r, t, "")
    \/ \E r \in RuleIds, a \in BOOLEAN : record_activation(r, a)
    \/ \E r \in RuleIds : promote_to_hot(r)
    \/ \E r \in RuleIds : retire(r)
    \/ \E r \in RuleIds : get(r)
    \/ hit_rates

SpecBackstop == Init /\ [][NextBackstop]_vars

NextCodebook ==
    \/ \E o \in Originals, c \in Forms, e \in EntryIds :
          record_pattern(o, c, e, Null, WarmCost(c))
    \/ \E a \in ActiveTexts : update_usage(a)
    \/ stats

SpecCodebook == Init /\ [][NextCodebook]_vars

NextTracker ==
    \/ \E n \in TestNumbers, rr \in RuleResultLists :
          record_test(n, COLD, 37800, rr)
    \/ \E r \in RuleIds, t \in Tiers, e \in Evidence : classify_rule(r, t, e)
    \/ \E r \in RuleIds : rule_history(r)
    \/ tier2_candidates
    \/ tracker_stats

SpecTracker == Init /\ [][NextTracker]_vars

\* the tracker with calls that fail partway
NextFailing ==
    \/ \E n \in TestNumbers, rr \in BadResultLists :
          record_test_raises(n, COLD, 37800, rr)
    \/ \E n \in TestNumbers, rr \in RuleResultLists :
          record_test(n, COLD, 37800, rr)
    \/ \E r \in RuleIds, t \in Tiers, e \in Evidence : classify_rule(r, t, e)
    \/ tracker_stats

SpecFailing == Init /\ [][NextFailing]_vars

SessionRule == "energy_calibration"
SessionText == "Match energy register to story mood."
SessionResults == << RuleResult(SessionRule, TRUE, TRUE, FALSE) >>

NextSession ==
    \/ \E outcome \in EnterOutcomes : enter(outcome)
    \/ \E exc \in BOOLEAN, outcome \in CloseOutcomes : exit(exc, outcome)
    \/ InBlock /\ record_test(1, COLD, 37800, SessionResults)
    \/ \E e \in Evidence : InBlock /\ classify_rule(SessionRule, TIER_2, e)
    \/ InBlock /\ tier2_candidates
    \/ InBlock /\ create(SessionRule, SessionText, "")
    \/ \E a \in BOOLEAN : InBlock /\ record_activation(SessionRule, a)
    \/ InBlock /\ promote_to_hot(SessionRule)
    \/ InBlock /\ retire(SessionRule)
    \/ InBlock /\ get(SessionRule)

SpecSession == Init /\ [][NextSession]_vars

InitClassify ==
    /\ InitStores
    /\ rule_text \in RuleTexts
    /\ classified = Null
    /\ IdlePack
    /\ IdleCompress
    /\ InitTokenizer

NextClassify == classify

SpecClassify == InitClassify /\ [][NextClassify]_vars

\* load_vocab_pack on a machine holding any of the pack files
InitPack ==
    /\ InitStores
    /\ IdleClassify
    /\ files \in SUBSET PackFiles
    /\ pack_ret = Null
    /\ IdleCompress
    /\ InitTokenizer

NextPack ==
    \E n \in PackNames, d \in SearchDirs : load_vocab_pack(n, d)

SpecPack == InitPack /\ [][NextPack]_vars

\* compress on any line of the model, with and without the abbreviation
\* layer and an extra vocabulary
InitCompress ==
    /\ InitStores
    /\ IdleClassify
    /\ IdlePack
    /\ compress_in \in
          {Some([text |-> l, abbreviate |-> a, extra_vocab |-> x]) :
              l \in Lines, a \in BOOLEAN, x \in ExtraVocabs}
    /\ compress_ret = Null
    /\ InitTokenizer

NextCompress == compress

SpecCompress == InitCompress /\ [][NextCompress]_vars

\* the codebook fed by extract_patterns, with record_pattern on the one
\* original extract_patterns also records
NextExtract ==
    \/ \E t \in ExtractTexts, e \in EntryIds : extract_patterns(t, e)
    \/ \E c \in Forms, e \in EntryIds :
          record_pattern("Search Engine Optimization", c, e, Null, WarmCost(c))
    \/ \E a \in ActiveTexts : update_usage(a)
    \/ stats

SpecExtract == Init /\ [][NextExtract]_vars

NextTokenizer == \E t \in EstimateTexts : call_estimate_tokens(t)

SpecTokenizer == Init /\ [][NextTokenizer]_vars

(* ====================================================================== *)
\* the two connections opened on a store that holds the backstop of
\* SharedRule and no pattern
InitShared ==
    /\ clock = 0
    /\ backstop_entries =
          {[backstop_id      |-> BackstopId(SharedRule),
            rule_id          |-> SharedRule,
            text             |-> "Use high energy for wins.",
            stage            |-> WARM,
            activation_count |-> 0,
            test_count       |-> 0,
            promoted_at      |-> Null,
            insertion_point  |-> "",
            retired          |-> 0]}
    /\ backstop_activations = << >>
    /\ ret = Ret("create", SharedRule, "Backstop", Null)
    /\ calls = [r \in RuleIds |-> [t |-> 0, f |-> 0]]
    /\ InitCodebook
    /\ InitTracker
    /\ InitSession
    /\ InitWriters
    /\ IdleClassify
    /\ IdlePack
    /\ IdleCompress
    /\ InitTokenizer

NextWriters ==
    \/ \E w \in Writers, a \in BOOLEAN : ra_insert(w, a)
    \/ \E w \in Writers : ra_locked(w)
    \/ \E w \in Writers : ra_update(w)
    \/ \E w \in Writers : ra_commit(w)
    \/ \E w \in Writers : rp_select(w)
    \/ \E w \in Writers : rp_write(w)
    \/ \E w \in Writers : cb_locked(w)
    \/ \E w \in Writers : rp_commit(w)
    \/ \E w \in Writers, t \in SharedTexts : uu_select(w, t)
    \/ \E w \in Writers : uu_write(w)
    \/ \E w \in Writers : uu_commit(w)

SpecWriters == InitShared /\ [][NextWriters]_vars

(* Properties of BackstopManager                                          *)
(* ====================================================================== *)
HasEntry(rule_id) == SelectEntries(BackstopId(rule_id)) # {}
Entry(rule_id) == FetchOne(SelectEntries(BackstopId(rule_id)))

\* C2: create(rule_id, text) on a store with no row for rule_id inserts
\* exactly one backstop, WARM, test_count 0, activation_count 0, promoted_at
\* null, not retired; get(rule_id) then reports stage WARM, test_count 0 and
\* hit_rate 0.0 (no division fault).
C2_CreateFresh ==
    [][\A r \in RuleIds, t \in Texts :
         (~HasEntry(r) /\ create(r, t, "")) =>
            LET new == backstop_entries' \ backstop_entries
                g == GetResult(r)'
            IN  /\ Cardinality(new) = 1
                /\ \A e \in new :
                      /\ e.rule_id = r
                      /\ e.text = t
                      /\ e.stage = WARM
                      /\ e.test_count = 0
                      /\ e.activation_count = 0
                      /\ e.promoted_at = Null
                      /\ e.retired = 0
                /\ backstop_entries \subseteq backstop_entries'
                /\ g.result = "Backstop"
                /\ g.obj[1].stage = WARM
                /\ g.obj[1].test_count = 0
                /\ IsZero(hit_rate(g.obj[1]))]_vars

C2_Witness ==
    /\ ret.op = "get"
    /\ ret.result = "Backstop"
    /\ ret.obj[1].test_count = 0
    /\ ret.obj[1].stage = WARM
    /\ backstop_activations = <<>>

\* C3: after create(rule_id) and n >= 3 record_activation(True) calls with no
\* record_activation(False), ready_for_hot is true and promote_to_hot returns
\* true leaving stage HOT and promoted_at set; with fewer than 3 recorded
\* activations ready_for_hot is false.
C3_ReadyAfterThree ==
    /\ [](\A r \in RuleIds :
            HasEntry(r) =>
              /\ (calls[r].t >= 3 /\ calls[r].f = 0)
                    => ready_for_hot(_get_backstop(Entry(r)))
              /\ (calls[r].t + calls[r].f < 3)
                    => ~ready_for_hot(_get_backstop(Entry(r))))
    /\ [][\A r \in RuleIds :
            (HasEntry(r) /\ calls[r].t >= 3 /\ calls[r].f = 0
                /\ promote_to_hot(r)) =>
               /\ ret'.result = "True"
               /\ Entry(r)'.stage = HOT
               /\ Entry(r)'.promoted_at # Null]_vars

C3_Witness ==
    \E r \in RuleIds :
        /\ ret = Ret("promote_to_hot", r, "True", Null)
        /\ calls[r].t >= 3 /\ calls[r].f = 0
        /\ HasEntry(r) /\ Entry(r).stage = HOT

\* C4: promote_to_hot is idempotent: called on a backstop that is already
\* HOT it returns true and leaves the stored row exactly as it was.
C4_PromoteIdempotent ==
    [][\A r \in RuleIds :
         (HasEntry(r) /\ Entry(r).stage = HOT /\ promote_to_hot(r)) =>
            /\ ret'.result = "True"
            /\ backstop_entries' = backstop_entries]_vars

\* C5: promote_to_hot(rule_id) returns true and sets stage HOT only if the
\* backstop exists with test_count >= 3 and activation_count = test_count;
\* otherwise it returns false and changes nothing in the store.
C5_PromoteGuard ==
    [][\A r \in RuleIds :
         promote_to_hot(r) =>
            LET pre == /\ HasEntry(r)
                       /\ Entry(r).test_count >= 3
                       /\ Entry(r).activation_count = Entry(r).test_count
            IN  /\ ret'.result = (IF pre THEN "True" ELSE "False")
                /\ pre => Entry(r)'.stage = HOT
                /\ ~pre => /\ backstop_entries' = backstop_entries
                           /\ backstop_activations' = backstop_activations]_vars

C5_Witness ==
    \E r \in RuleIds :
        /\ ret = Ret("promote_to_hot", r, "False", Null)
        /\ HasEntry(r)
        /\ Entry(r).test_count >= 3
        /\ Entry(r).activation_count < Entry(r).test_count
        /\ Entry(r).stage = WARM

\* C6: once a record_activation(activated=False) has been recorded for an
\* existing backstop, ready_for_hot is false in every later state and no
\* later promote_to_hot for it returns true.
C6_StuckAfterFailure ==
    \A r \in RuleIds :
        calls[r].f > 0 =>
            /\ HasEntry(r)
            /\ ~ready_for_hot(_get_backstop(Entry(r)))
            /\ ret # Ret("promote_to_hot", r, "True", Null)

C6_Witness ==
    \E r \in RuleIds :
        /\ calls[r].f = 1 /\ calls[r].t >= 2
        /\ ret = Ret("promote_to_hot", r, "False", Null)
        /\ Entry(r).stage = WARM

\* C7: once a backstop's stage is HOT it is HOT in every later state, and
\* once its retired flag is set it stays set.
C7_Irreversible ==
    [][\A e \in backstop_entries :
         LET later == {x \in backstop_entries' : x.backstop_id = e.backstop_id}
         IN  /\ later # {}
             /\ e.stage = HOT => \A x \in later : x.stage = HOT
             /\ e.retired = 1 => \A x \in later : x.retired = 1]_vars

C7_Witness ==
    \E r \in RuleIds :
        /\ HasEntry(r)
        /\ Entry(r).stage = HOT
        /\ Entry(r).retired = 1
        /\ ret = Ret("create", r, "IntegrityError", Null)

\* C8: HOT and RETIRED are terminal and exclusive: a retired backstop is
\* never promoted to HOT, a HOT backstop is never marked retired, so no
\* backstop is both HOT and retired.
C8_HotRetiredExclusive ==
    \A e \in backstop_entries : ~(e.stage = HOT /\ e.retired = 1)

\* C9: create(rule_id) for a rule_id that already has a row fails with the
\* uniqueness violation and leaves the existing row unchanged; every
\* reachable state holds at most one backstop row per rule_id.
C9_CreateUnique ==
    /\ [](\A r \in RuleIds :
            Cardinality({e \in backstop_entries : e.rule_id = r}) <= 1)
    /\ [][\A r \in RuleIds, t \in Texts :
            (HasEntry(r) /\ create(r, t, "")) =>
               /\ ret'.result = "IntegrityError"
               /\ backstop_entries' = backstop_entries
               /\ backstop_activations' = backstop_activations]_vars

C9_Witness ==
    \E r \in RuleIds :
        /\ ret = Ret("create", r, "IntegrityError", Null)
        /\ HasEntry(r)
        /\ Entry(r).test_count > 0

\* C10 as stated: after retire(rule_id) on an existing backstop, a subsequent
\* create(rule_id, text) succeeds and yields an active WARM backstop with
\* test_count 0 and activation_count 0.
C10_CreateAfterRetire ==
    [][\A r \in RuleIds, t \in Texts :
         (HasEntry(r) /\ Entry(r).retired = 1 /\ create(r, t, "")) =>
            /\ ret'.result = "Backstop"
            /\ \E e \in backstop_entries' :
                  /\ e.rule_id = r
                  /\ e.stage = WARM
                  /\ e.retired = 0
                  /\ e.test_count = 0
                  /\ e.activation_count = 0]_vars

\* C10 amended: retiring does not clear the way: after retire(rule_id) on an
\* existing backstop, create(rule_id, text) fails with the uniqueness
\* violation, the row stays retired with its text, stage and counters, and
\* the rule has no active backstop.
C10_RetiredBlocksCreate ==
    [][\A r \in RuleIds, t \in Texts :
         (HasEntry(r) /\ Entry(r).retired = 1 /\ create(r, t, "")) =>
            /\ ret'.result = "IntegrityError"
            /\ backstop_entries' = backstop_entries
            /\ \A e \in backstop_entries' : e.rule_id = r => e.retired = 1]_vars

C10_Witness ==
    \E r \in RuleIds :
        /\ ret = Ret("create", r, "IntegrityError", Null)
        /\ HasEntry(r)
        /\ Entry(r).retired = 1
        /\ Entry(r).stage = WARM

\* C11: record_activation(rule_id, activated) on an existing backstop appends
\* exactly one activation-event row, adds 1 to test_count and 1 to
\* activation_count iff activated, and leaves the backstop's stage, retired
\* flag, promoted_at and text, and every other backstop, unchanged.
C11_RecordActivationFrame ==
    [][\A r \in RuleIds, a \in BOOLEAN :
         (HasEntry(r) /\ record_activation(r, a)) =>
            LET old == Entry(r)
                new == Entry(r)'
                n == Len(backstop_activations)
            IN  /\ Len(backstop_activations') = n + 1
                /\ SubSeq(backstop_activations', 1, n) = backstop_activations
                /\ backstop_activations'[n + 1].backstop_id = old.backstop_id
                /\ backstop_activations'[n + 1].activated = (IF a THEN 1 ELSE 0)
                /\ new.test_count = old.test_count + 1
                /\ new.activation_count =
                      old.activation_count + (IF a THEN 1 ELSE 0)
                /\ new.stage = old.stage
                /\ new.retired = old.retired
                /\ new.promoted_at = old.promoted_at
                /\ new.text = old.text
                /\ backstop_entries' \ {new} = backstop_entries \ {old}]_vars

C11_Witness ==
    \E r \in RuleIds, r2 \in RuleIds :
        /\ r # r2
        /\ ret = Ret("record_activation", r, "None", Null)
        /\ HasEntry(r) /\ HasEntry(r2)
        /\ Entry(r).test_count = 2 /\ Entry(r).activation_count = 1
        /\ Entry(r2).test_count = 1

\* C12: retire(rule_id) sets retired on the backstop and changes nothing
\* else (text, stage, counters, promoted_at, activation-event rows); no
\* BackstopManager operation deletes a backstop row or an activation-event
\* row, so the set of rule_ids with a row only grows.
C12_RetirePreserves ==
    [][/\ \A r \in RuleIds :
            retire(r) =>
               /\ backstop_entries' =
                     {IF e.rule_id = r THEN [e EXCEPT !.retired = 1] ELSE e :
                         e \in backstop_entries}
               /\ backstop_activations' = backstop_activations
       /\ {e.rule_id : e \in backstop_entries}
             \subseteq {e.rule_id : e \in backstop_entries'}
       /\ Cardinality(backstop_entries) <= Cardinality(backstop_entries')
       /\ Len(backstop_activations) <= Len(backstop_activations')
       /\ SubSeq(backstop_activations', 1, Len(backstop_activations))
             = backstop_activations]_vars

C12_Witness ==
    \E r \in RuleIds :
        /\ ret = Ret("retire", r, "None", Null)
        /\ HasEntry(r)
        /\ Entry(r).retired = 1
        /\ Entry(r).test_count >= 2
        /\ Len(backstop_activations) >= 2

\* C13: for a rule_id with no backstop row, get returns null, promote_to_hot
\* returns false, retire and record_activation complete without raising, and
\* none of these calls creates a backstop entry for that rule_id.
C13_NotFoundIsValue ==
    [][\A r \in RuleIds :
         ~HasEntry(r) =>
            /\ get(r) => ret'.result = "None"
            /\ promote_to_hot(r) => ret'.result = "False"
            /\ retire(r) => ret'.result = "None"
            /\ \A a \in BOOLEAN : record_activation(r, a) => ret'.result = "None"
            /\ (\/ get(r) \/ promote_to_hot(r) \/ retire(r)
                \/ \E a \in BOOLEAN : record_activation(r, a))
                  => backstop_entries' = backstop_entries]_vars

C13_Witness ==
    \E r \in RuleIds :
        /\ ret = Ret("record_activation", r, "None", Null)
        /\ ~HasEntry(r)
        /\ backstop_activations # <<>>
        /\ backstop_activations[Len(backstop_activations)].backstop_id
              = BackstopId(r)

\* C24: hit_rates() reports, for exactly the non-retired backstops,
\* tests = test_count, hit_rate = activation_count/test_count (0.0 when
\* test_count is 0) and ready_for_hot equal to the ready_for_hot of the
\* Backstop that get(rule_id) returns, which is test_count >= 3 and
\* activation_count = test_count; the query changes no stored row.
C24_HitRatesFresh ==
    [][hit_rates =>
         LET d == ret'.obj[1]
         IN  /\ DOMAIN d = {r \in RuleIds : HasEntry(r) /\ Entry(r).retired = 0}
             /\ \A r \in DOMAIN d :
                   LET e == Entry(r)
                       got == GetResult(r).obj[1]
                   IN  /\ d[r].tests = e.test_count
                       /\ e.test_count = 0 => IsZero(d[r].hit_rate)
                       /\ e.test_count > 0 =>
                              d[r].hit_rate = Frac(e.activation_count, e.test_count)
                       /\ d[r].hit_rate = hit_rate(got)
                       /\ d[r].ready_for_hot = ready_for_hot(got)
                       /\ d[r].ready_for_hot =
                              (e.test_count >= 3 /\ e.activation_count = e.test_count)
             /\ backstop_entries' = backstop_entries
             /\ backstop_activations' = backstop_activations]_vars

\* hit_rates() with one backstop ready after three activations and one
\* backstop that has no test yet
C24_Witness ==
    /\ ret.op = "hit_rates"
    /\ DOMAIN ret.obj[1] = RuleIds
    /\ \E r \in RuleIds :
          /\ ret.obj[1][r].ready_for_hot
          /\ ret.obj[1][r].tests = 3
    /\ \E r \in RuleIds :
          /\ ~ret.obj[1][r].ready_for_hot
          /\ ret.obj[1][r].tests = 0
          /\ IsZero(ret.obj[1][r].hit_rate)

(* ====================================================================== *)
(* Properties of Codebook                                                 *)
(* ====================================================================== *)
NoDuplicates(list) ==
    \A i, j \in 1..Len(list) : list[i] = list[j] => i = j
Elements(list) == {list[i] : i \in 1..Len(list)}
RecordedOriginals == {o \in Originals : observed[o].n >= 1}

\* C1: after n >= 1 record_pattern calls for one original text, and no
\* other operation on that pattern, the store holds exactly one row for it:
\* stage COLD, times_seen = n, source identifiers exactly the distinct entry
\* ids supplied, every call returned the same pattern id; stats() counts it
\* once in total and once in cold.
C1_OneRowPerOriginal ==
    /\ \A o \in RecordedOriginals :
          ~observed[o].other =>
             /\ Cardinality(SelectPattern(o)) = 1
             /\ \A p \in SelectPattern(o) :
                   /\ p.stage = COLD
                   /\ p.times_seen = observed[o].n
                   /\ NoDuplicates(p.source_entry_ids)
                   /\ Elements(p.source_entry_ids) = observed[o].ids
                   /\ observed[o].rets = {p.id}
    /\ StatsResult.total = Cardinality(RecordedOriginals)
    /\ RecordedOriginals # {} =>
          StatsResult.cold = Some(Cardinality(RecordedOriginals))

C1_Witness ==
    \E o \in Originals :
        /\ observed[o].n = 2
        /\ Cardinality(observed[o].ids) = 1
        /\ ~observed[o].other
        /\ cbret = CbRet("stats", Some(StatsResult))
        /\ StatsResult.total = 1


\* the form update_usage looks for: hot_form if the pattern is HOT and has
\* one, otherwise warm_form
Representative(p) ==
    IF p.stage = HOT /\ p.hot_form # Null THEN p.hot_form[1] ELSE p.warm_form

Touched(active_text) ==
    {p \in compression_codebook : Contains(active_text, Representative(p))}

\* C27: update_usage(active_text) adds exactly 1 to times_seen of every
\* stored pattern whose representative form occurs in active_text, leaves
\* every other pattern as it was, changes no field but times_seen and
\* last_seen_at, creates and deletes no pattern, and returns the number of
\* patterns it incremented (0 on an empty codebook).
C27_UpdateUsageFrame ==
    [][\A a \in ActiveTexts :
          (cbret'.op = "update_usage" /\ update_usage(a)) =>
             /\ {q.id : q \in compression_codebook'} =
                   {p.id : p \in compression_codebook}
             /\ Cardinality(compression_codebook') =
                   Cardinality(compression_codebook)
             /\ \A p \in compression_codebook :
                   \E q \in compression_codebook' :
                      /\ q.id = p.id
                      /\ IF p \in Touched(a)
                         THEN /\ q.times_seen = p.times_seen + 1
                              /\ q = [p EXCEPT
                                        !.times_seen = q.times_seen,
                                        !.last_seen_at = q.last_seen_at]
                         ELSE q = p
             /\ cbret'.result = Some(Cardinality(Touched(a)))
             /\ compression_codebook = {} => cbret'.result = Some(0)]_vars

\* two patterns are stored, the text held the form of one of them only, and
\* update_usage has just counted that one
C27_Witness ==
    /\ cbret = CbRet("update_usage", Some(1))
    /\ \E p, q \in compression_codebook :
          /\ p.warm_form = "SEO" /\ p.times_seen = 2
          /\ observed[p.pattern_text].other
          /\ q.warm_form = "ROI" /\ q.times_seen = 1


SuppliedCost(c) ==
    IF WarmCost(c) = Null THEN estimate_tokens(c) ELSE WarmCost(c)[1]

\* C28: record_pattern on a stored original overwrites warm_form and
\* token_cost_warm with the values of the call and leaves the pattern's id,
\* stage, confidence, token_cost_original and first_seen_at unchanged, every
\* source identifier stored before is stored after; no other step changes a
\* warm_form, so the stored warm_form is always the form of the most recent
\* observation.
C28_LatestObservationWins ==
    [][/\ \A p \in compression_codebook, c \in Forms, e \in EntryIds :
             (/\ cbret' = CbRet("record_pattern", Some(p.id))
              /\ record_pattern(p.pattern_text, c, e, Null, WarmCost(c))) =>
                /\ \E q \in compression_codebook' :
                      /\ q.id = p.id
                      /\ q.pattern_text = p.pattern_text
                      /\ q.warm_form = c
                      /\ q.token_cost_warm = SuppliedCost(c)
                      /\ q.stage = p.stage
                      /\ q.confidence = p.confidence
                      /\ q.token_cost_original = p.token_cost_original
                      /\ q.first_seen_at = p.first_seen_at
                      /\ Elements(p.source_entry_ids) \subseteq
                            Elements(q.source_entry_ids)
                /\ \A r \in compression_codebook :
                      r.id # p.id => r \in compression_codebook'
       /\ cbret'.op # "record_pattern" =>
             \A p \in compression_codebook :
                \E q \in compression_codebook' :
                   /\ q.id = p.id
                   /\ q.warm_form = p.warm_form
                   /\ q.token_cost_warm = p.token_cost_warm]_vars

\* a stored pattern has just been observed a second time, from another
\* entry, as "ROI" with the caller's cost of 2, and nothing else touched it
C28_Witness ==
    \E p \in compression_codebook :
        /\ cbret = CbRet("record_pattern", Some(p.id))
        /\ observed[p.pattern_text].n = 2
        /\ ~observed[p.pattern_text].other
        /\ p.warm_form = "ROI"
        /\ p.token_cost_warm = 2
        /\ Len(p.source_entry_ids) = 2


(* ---------------------------------------------------------------------- *)
(* Properties of ValidationTracker                                        *)
(* ---------------------------------------------------------------------- *)
\* the step is the call named; the value returned tells the calls apart
IsRecordTest(n, rr) ==
    /\ vret'.op = "record_test"
    /\ vret'.result[1].test_number = n
    /\ vret'.result[1].rule_results = rr
    /\ record_test(n, COLD, 37800, rr)
IsClassifyRule(r, t, e) ==
    /\ vret'.op = "classify_rule"
    /\ classify_rule(r, t, e)
IsRuleHistory(r) ==
    /\ vret'.op = "rule_history"
    /\ vret'.result[1].rule_id = r
    /\ rule_history(r)
IsTier2Candidates ==
    /\ vret'.op = "tier2_candidates"
    /\ tier2_candidates
IsStats ==
    /\ vret'.op = "stats"
    /\ tracker_stats
Returned == vret.result[1]
FullyCompliant(rr) ==
    {i \in 1..Len(rr) : /\ rr[i].activated_correctly
                        /\ rr[i].suppressed_correctly
                        /\ rr[i].output_compliant}

\* C14: the TestRun that record_test returns has pass_rate = (results with
\* all three flags true) / (results), 0.0 for the empty list; drifted_rules
\* is exactly the results that are not fully compliant, in list order, so
\* |drifted_rules| + passed = number of results; a non-empty list of fully
\* compliant results gives pass_rate 1.0 and no drifted rules.
C14_PassRate ==
    [][\A n \in TestNumbers, rr \in RuleResultLists :
          IsRecordTest(n, rr) =>
            LET run == Returned'
                passed == Cardinality(FullyCompliant(rr))
                drifted == run.drifted_rules
            IN  /\ rr = << >> => IsZero(run.pass_rate)
                /\ rr # << >> => run.pass_rate = Frac(passed, Len(rr))
                /\ Len(drifted) + passed = Len(rr)
                /\ \E f \in [1..Len(drifted) -> 1..Len(rr)] :
                      /\ \A i \in 1..Len(drifted) : drifted[i] = rr[f[i]]
                      /\ \A i, j \in 1..Len(drifted) : i < j => f[i] < f[j]
                      /\ {f[i] : i \in 1..Len(drifted)}
                            = (1..Len(rr)) \ FullyCompliant(rr)
                /\ (rr # << >> /\ passed = Len(rr)) =>
                      IsOne(run.pass_rate) /\ drifted = << >>]_vars

\* a run with one compliant result out of three has been returned
C14_Witness ==
    /\ vret.op = "record_test"
    /\ Len(Returned.rule_results) = 3
    /\ Returned.pass_rate = Frac(1, 3)
    /\ Len(Returned.drifted_rules) = 2
    /\ Returned.drifted_rules[2].rule_id = "energy_calibration"

Flag(b) == IF b THEN 1 ELSE 0

\* C15: every record_test call persists exactly one test row and one
\* rule-result row per element of rule_results, repeated rule ids included,
\* so the number of test rows (and stats().total_tests) equals the number of
\* calls made and the number of rule-result rows equals the sum of the
\* lengths of the lists passed.
C15_RowsPerCall ==
    /\ [](/\ Len(validation_tests) = recorded.tests
          /\ Len(validation_rule_results) = recorded.results
          /\ vret.op = "stats" => Returned.total_tests = recorded.tests)
    /\ [][\A n \in TestNumbers, rr \in RuleResultLists :
            IsRecordTest(n, rr) =>
              LET k == Len(validation_tests)
                  m == Len(validation_rule_results)
              IN  /\ Len(validation_tests') = k + 1
                  /\ validation_tests'[k + 1].test_number = n
                  /\ Len(validation_rule_results') = m + Len(rr)
                  /\ \A i \in 1..Len(rr) :
                        LET row == validation_rule_results'[m + i]
                        IN  /\ row.test_id = validation_tests'[k + 1].id
                            /\ row.rule_id = rr[i].rule_id
                            /\ row.activated_correctly = Flag(rr[i].activated_correctly)
                            /\ row.suppressed_correctly = Flag(rr[i].suppressed_correctly)
                            /\ row.output_compliant = Flag(rr[i].output_compliant)]_vars

\* stats() after two calls, one with the empty list and one with a list
\* that names energy_calibration twice
C15_Witness ==
    /\ vret.op = "stats"
    /\ Returned.total_tests = 2
    /\ recorded.tests = 2
    /\ Len(validation_rule_results) = 3
    /\ validation_rule_results[2].rule_id = validation_rule_results[3].rule_id

HasRule(r) == \E m \in validation_rules : m.rule_id = r
Rule(r) == CHOOSE m \in validation_rules : m.rule_id = r
References(rr, r) == \E i \in 1..Len(rr) : rr[i].rule_id = r

\* C16: the first record_test or classify_rule that references a rule
\* creates its metadata row with first_seen set; from then on first_seen
\* never changes, and every record_test that references the rule sets
\* last_tested to a reading of the clock taken during the call, not earlier
\* than the value it had.
C16_FirstSeenImmutable ==
    /\ [](\A r \in RuleIds :
            /\ Cardinality({m \in validation_rules : m.rule_id = r}) <= 1
            /\ HasRule(r) => /\ Rule(r).first_seen # Null
                             /\ Rule(r).first_seen = recorded.first_seen[r])
    /\ [][\A r \in RuleIds :
            /\ HasRule(r) => /\ HasRule(r)'
                             /\ Rule(r)'.first_seen = Rule(r).first_seen
            /\ \A n \in TestNumbers, rr \in RuleResultLists :
                  (IsRecordTest(n, rr) /\ References(rr, r)) =>
                     /\ HasRule(r)'
                     /\ Rule(r)'.last_tested # Null
                     /\ Rule(r)'.last_tested[1] \in clock..clock'
                     /\ ~HasRule(r) =>
                           Rule(r)'.first_seen[1] \in clock..clock'
                     /\ (HasRule(r) /\ Rule(r).last_tested # Null) =>
                           Rule(r).last_tested[1] <= Rule(r)'.last_tested[1]
            /\ \A t \in Tiers, e \in Evidence :
                  (IsClassifyRule(r, t, e) /\ ~HasRule(r)) =>
                     /\ HasRule(r)'
                     /\ Rule(r)'.first_seen[1] \in clock..clock'
                     /\ Rule(r)'.last_tested = Null]_vars

\* a rule created by classify_rule at time 0 and tested at time 1
C16_Witness ==
    /\ vret.op = "record_test"
    /\ HasRule("tone_rule")
    /\ Rule("tone_rule").first_seen = Some(0)
    /\ Rule("tone_rule").last_tested = Some(1)
    /\ Rule("tone_rule").tier = TIER_2

\* C17: a rule that record_test creates has tier TIER_1 and no evidence;
\* classify_rule(rule_id, tier, evidence) stores the tier and the evidence
\* whether or not the rule existed and touches no other rule; record_test
\* never changes the tier or the evidence of an existing rule, so the stored
\* tier of a rule changes in classify_rule steps for that rule only.
C17_ManualTierKept ==
    [][\A r \in RuleIds :
          /\ \A n \in TestNumbers, rr \in RuleResultLists :
                IsRecordTest(n, rr) =>
                   /\ HasRule(r) =>
                         /\ Rule(r)'.tier = Rule(r).tier
                         /\ Rule(r)'.tier_evidence = Rule(r).tier_evidence
                   /\ (~HasRule(r) /\ References(rr, r)) =>
                         /\ Rule(r)'.tier = TIER_1
                         /\ Rule(r)'.tier_evidence = ""
          /\ \A t \in Tiers, e \in Evidence :
                IsClassifyRule(r, t, e) =>
                   /\ HasRule(r)'
                   /\ Rule(r)'.tier = t
                   /\ Rule(r)'.tier_evidence = e
                   /\ {m \in validation_rules' : m.rule_id # r}
                         = {m \in validation_rules : m.rule_id # r}
          /\ (HasRule(r) /\ (Rule(r)'.tier # Rule(r).tier
                              \/ Rule(r)'.tier_evidence # Rule(r).tier_evidence)) =>
                \E t \in Tiers, e \in Evidence : IsClassifyRule(r, t, e)]_vars

\* energy_calibration was classified TIER_2 and tested afterwards;
\* tone_rule was created by record_test and never classified
C17_Witness ==
    /\ vret.op = "record_test"
    /\ Len(validation_tests) = 2
    /\ Len(validation_rule_results) = 6
    /\ HasRule("energy_calibration")
    /\ Rule("energy_calibration").tier = TIER_2
    /\ Rule("energy_calibration").tier_evidence = "register drift"
    /\ HasRule("tone_rule")
    /\ Rule("tone_rule").tier = TIER_1
    /\ Rule("tone_rule").tier_evidence = ""

ResultRowsOf(r) ==
    {i \in 1..Len(validation_rule_results) : validation_rule_results[i].rule_id = r}
TestOf(row) ==
    CHOOSE j \in 1..Len(validation_tests) : validation_tests[j].id = row.test_id

\* C18: rule_history(rule_id) returns one entry for every rule-result row
\* recorded for that rule (with the flags of the row and the test_number of
\* its run) and none for another rule, in non-decreasing test_number
\* order, whatever the order the runs were recorded in.
C18_HistoryOrdered ==
    [][\A r \in RuleIds :
          IsRuleHistory(r) =>
            LET h == Returned'.rows
            IN  /\ Len(h) = Cardinality(ResultRowsOf(r))
                /\ {h[i].row_id : i \in 1..Len(h)} = ResultRowsOf(r)
                /\ \A i \in 1..Len(h) :
                      LET row == validation_rule_results[h[i].row_id]
                      IN  /\ row.rule_id = r
                          /\ h[i].test_number
                                = validation_tests[TestOf(row)].test_number
                          /\ h[i].activated_correctly = row.activated_correctly
                          /\ h[i].suppressed_correctly = row.suppressed_correctly
                          /\ h[i].output_compliant = row.output_compliant
                /\ \A i \in 1..(Len(h) - 1) :
                      h[i].test_number <= h[i + 1].test_number]_vars

\* the history of tone_rule after run 2 was recorded before run 1
C18_Witness ==
    /\ vret.op = "rule_history"
    /\ Returned.rule_id = "tone_rule"
    /\ Len(Returned.rows) = 2
    /\ Returned.rows[1].test_number = 1
    /\ Returned.rows[2].test_number = 2
    /\ Returned.rows[1].row_id > Returned.rows[2].row_id
    /\ Len(validation_rule_results) > 2

HasDrifted(r) ==
    \E i \in 1..Len(validation_rule_results) :
        /\ validation_rule_results[i].rule_id = r
        /\ \/ validation_rule_results[i].activated_correctly = 0
           \/ validation_rule_results[i].suppressed_correctly = 0
           \/ validation_rule_results[i].output_compliant = 0

\* C19: tier2_candidates() returns every rule_id at most once, and returns
\* a rule_id exactly when some recorded result of the rule has a compliance
\* flag false; a rule that has drifted once has drifted in every later
\* state, so it stays a candidate after later fully compliant runs.
C19_CandidatesDistinct ==
    [][/\ IsTier2Candidates =>
            LET c == Returned'
            IN  /\ \A i, j \in 1..Len(c) : c[i].rule_id = c[j].rule_id => i = j
                /\ {c[i].rule_id : i \in 1..Len(c)} = {r \in RuleIds : HasDrifted(r)}
       /\ \A r \in RuleIds : HasDrifted(r) => HasDrifted(r)']_vars

\* both rules are candidates; tone_rule drifted in the first run and was
\* fully compliant in the last one
C19_Witness ==
    /\ vret.op = "tier2_candidates"
    /\ Len(Returned) = 2
    /\ Returned[2].rule_id = "tone_rule"
    /\ Len(validation_rule_results) = 4
    /\ validation_rule_results[1].rule_id = "tone_rule"
    /\ validation_rule_results[1].output_compliant = 0
    /\ validation_rule_results[4].rule_id = "tone_rule"
    /\ validation_rule_results[4].output_compliant = 1

IsPrefix(old, new) ==
    Len(old) <= Len(new) /\ SubSeq(new, 1, Len(old)) = old

\* C20: recorded runs are immutable.  Every step keeps the stored test rows
\* and rule-result rows as they are, record_test only appending to them;
\* classify_rule and the queries leave both tables as they are.
C20_RunsAppendOnly ==
    [][/\ IsPrefix(validation_tests, validation_tests')
       /\ IsPrefix(validation_rule_results, validation_rule_results')
       /\ (\/ \E r \in RuleIds, t \in Tiers, e \in Evidence : IsClassifyRule(r, t, e)
           \/ \E r \in RuleIds : IsRuleHistory(r)
           \/ IsTier2Candidates
           \/ IsStats) =>
             /\ validation_tests' = validation_tests
             /\ validation_rule_results' = validation_rule_results]_vars

\* two runs with the same test_number and different results are both
\* stored, and a rule has been classified since
C20_Witness ==
    /\ vret.op = "classify_rule"
    /\ Len(validation_tests) = 2
    /\ validation_tests[1].test_number = validation_tests[2].test_number
    /\ validation_tests[1].pass_rate # validation_tests[2].pass_rate
    /\ Len(validation_rule_results) = 4


\* C21: a test run is identified by (test_number, stage): the store never
\* holds two test rows with the same test_number and stage.
C21_UniqueRun ==
    \A i, j \in 1..Len(validation_tests) :
        (/\ validation_tests[i].test_number = validation_tests[j].test_number
         /\ validation_tests[i].stage = validation_tests[j].stage) => i = j


(* ---------------------------------------------------------------------- *)
(* Properties of ValidationSession                                        *)
(* ---------------------------------------------------------------------- *)
\* C22: when the with statement has been left, normally or by an error
\* raised in __enter__, in the block or in a close(), every connection
\* that was opened is closed, and an error raised inside the block has
\* been propagated.
C22_BothReleased ==
    session.pc = "left" =>
        /\ handles.tracker # "open"
        /\ handles.backstops # "open"
        /\ session.exc => session.error # "none"

TrackerTables ==
    <<validation_tests, validation_rule_results, validation_rules>>
BackstopTables == <<backstop_entries, backstop_activations>>
TrackerStep ==
    \/ IsRecordTest(1, SessionResults)
    \/ \E e \in Evidence : IsClassifyRule(SessionRule, TIER_2, e)
    \/ IsTier2Candidates
BackstopStep ==
    \/ create(SessionRule, SessionText, "")
    \/ \E a \in BOOLEAN : record_activation(SessionRule, a)
    \/ promote_to_hot(SessionRule)
    \/ retire(SessionRule)
    \/ get(SessionRule)

\* C23: on a shared store every ValidationTracker operation leaves the
\* backstop entries and activation rows unchanged and every BackstopManager
\* operation leaves test rows, rule-result rows and rule metadata
\* unchanged; create succeeds and record_activation counts whether or not
\* the rule has metadata or test rows.
C23_SchemasIndependent ==
    [][/\ TrackerStep => BackstopTables' = BackstopTables
       /\ BackstopStep => TrackerTables' = TrackerTables
       /\ (create(SessionRule, SessionText, "") /\ ~HasEntry(SessionRule)) =>
             /\ ret'.result = "Backstop"
             /\ HasEntry(SessionRule)'
       /\ \A a \in BOOLEAN :
             (record_activation(SessionRule, a) /\ HasEntry(SessionRule)) =>
                Entry(SessionRule)'.test_count = Entry(SessionRule).test_count + 1]_vars

\* inside one session the shared store holds a retired backstop with two
\* recorded activations next to a test run and a TIER_2 classification of
\* the same rule, the last calls being record_activation and classify_rule
C23_Witness ==
    /\ session.pc = "block"
    /\ ret.op = "record_activation"
    /\ HasEntry(SessionRule)
    /\ Entry(SessionRule).test_count = 2
    /\ Entry(SessionRule).retired = 1
    /\ vret.op = "classify_rule"
    /\ Len(validation_tests) = 1
    /\ recorded.first_seen[SessionRule] = Some(1)
    /\ Rule(SessionRule).tier = TIER_2


(* ---------------------------------------------------------------------- *)
(* Properties of classify_rule_tier                                       *)
(* ---------------------------------------------------------------------- *)
Count(words) == Cardinality({i \in 1..Len(rule_text) : rule_text[i] \in words})
T1 == Count({"never", "U+1F512"})
T2 == Count({"match"})
HasEmoji == Count({"U+1F512"}) > 0

\* C25: the tier is a function of the two signal counts: Tier 1 when
\* t1 + t2 = 0 or t2/(t1 + t2) <= 0.3, Tier 2 otherwise, with Tier 2 signals
\* dominating from 0.6 on and mixed signals in between; a signature emoji
\* in the text does not change the tier that the counts give.
C25_TierFromCounts ==
    classified # Null =>
        LET result == classified[1]
            total == T1 + T2
        IN  /\ (total = 0 \/ 10 * T2 <= 3 * total) <=> result.tier = TIER_1
            /\ (total > 0 /\ 10 * T2 > 3 * total) <=> result.tier = TIER_2
            /\ (total > 0 /\ 10 * T2 >= 6 * total)
                  <=> result.reasoning = "tier2_dominate"
            /\ (total > 0 /\ 10 * T2 > 3 * total /\ 10 * T2 < 6 * total)
                  <=> result.reasoning = "mixed"
            /\ total > 0 => result.tier = Scored(T1, T2).tier

\* a text with a signature emoji whose ratio is exactly 0.6 was classified
\* Tier 2
C25_Witness ==
    /\ classified # Null
    /\ HasEmoji
    /\ T1 = 2 /\ T2 = 3
    /\ classified[1].tier = TIER_2
    /\ classified[1].note

\* the confidence before rounding that the signal counts and the emoji
\* give, as numerator and denominator
ExactConfidence ==
    LET total == T1 + T2
        capped(n, d) == IF 100 * n <= 95 * d THEN <<n, d>> ELSE <<95, 100>>
        base == IF total = 0 THEN <<3, 10>>
                ELSE IF 10 * T2 >= 6 * total THEN capped(total + T2, 2 * total)
                ELSE IF 10 * T2 <= 3 * total THEN capped(total + T1, 2 * total)
                ELSE <<1, 2>>
        tier2 == total > 0 /\ 10 * T2 > 3 * total
        lowered == <<100 * base[1] - 15 * base[2], 100 * base[2]>>
    IN  IF HasEmoji /\ tier2
        THEN (IF 100 * lowered[1] >= 35 * lowered[2] THEN lowered
              ELSE <<35, 100>>)
        ELSE base

Searched(dirs) == IF dirs = Null THEN DefaultDirs ELSE dirs[1]

\* the name is no file and <name>.json is in none of the directories
Missing(name, dirs) ==
    /\ <<name>> \notin files
    /\ \A i \in 1..Len(Searched(dirs)) :
          << Searched(dirs)[i], JsonName(name) >> \notin files

\* C29: load_vocab_pack with a name that is no existing file and is found
\* as <name>.json in no searched directory raises FileNotFoundError carrying
\* the pack name and the list of searched directories; it returns no
\* vocabulary, not even an empty one.
C29_MissingPackFails ==
    pack_ret # Null =>
       (Missing(pack_ret.pack_path_or_name, pack_ret.search_dirs) =>
           /\ pack_ret.value = Null
           /\ pack_ret.raised # Null
           /\ pack_ret.raised[1].type = "FileNotFoundError"
           /\ pack_ret.raised[1].pack = pack_ret.pack_path_or_name
           /\ pack_ret.raised[1].searched = Searched(pack_ret.search_dirs))

\* "marketing" was looked for in custom and shared, in that order, on a
\* machine that holds it in the default directory only, and the call raised
C29_Witness ==
    /\ pack_ret # Null
    /\ pack_ret.pack_path_or_name = "marketing"
    /\ pack_ret.search_dirs = Some(<<"custom", "shared">>)
    /\ files = {<<"prompt_compress/../vocab_packs", "marketing.json">>}
    /\ pack_ret.raised =
          Some(FileNotFoundError("marketing", <<"custom", "shared">>))


(* ---------------------------------------------------------------------- *)
(* Properties of compress                                                 *)
(* ---------------------------------------------------------------------- *)
\* C30: every occurrence apply_abbreviation replaces is replaced by a form
\* whose estimated token cost is strictly lower than the cost of the text
\* that occurrence matched, and compress never returns more compressed
\* tokens than original tokens.
C30_FloorGuard ==
    compress_ret # Null =>
       /\ \A s \in compress_ret[1].replaced :
             estimate_tokens(s[2]) < estimate_tokens(s[1])
       /\ compress_ret[1].compressed_tokens <=
             compress_ret[1].original_tokens


(* ---------------------------------------------------------------------- *)
(* Properties of Codebook.extract_patterns                                *)
(* ---------------------------------------------------------------------- *)
NoCount(c) == c = Null \/ c = Some(0)

RECURSIVE EmojiObservations(_)
EmojiObservations(lines) ==
    IF lines = << >> THEN 0
    ELSE (IF IsComment(Strip(Head(lines))) THEN 0
          ELSE Len(EmojiIn(LineWords(Head(lines)))))
         + EmojiObservations(Tail(lines))

\* C32: extract_patterns on a text with a non-comment line holding k >= 2
\* emoji leaves exactly one row for the stripped line, gains at most one
\* row for it, raises that row's times_seen by k for each time the line
\* occurs in the text, leaves its warm_form as the last emoji of the line,
\* and returns the number of observations made, k for every such line
\* included.
C32_EmojiCollide ==
    [][\A t \in ExtractTexts, e \in EntryIds :
          (cbret'.op = "extract_patterns" /\ extract_patterns(t, e)) =>
             /\ cbret'.result =
                   Some((IF SearchWord("SEO", t) THEN 1 ELSE 0)
                          + EmojiObservations(t))
             /\ \A i \in 1..Len(t) :
                   LET o == Strip(t[i])
                       emojis == EmojiIn(LineWords(t[i]))
                       k == Len(emojis)
                       times == Cardinality({j \in 1..Len(t) : Strip(t[j]) = o})
                       before == {p \in compression_codebook :
                                     p.pattern_text = o}
                       after == {p \in compression_codebook' :
                                    p.pattern_text = o}
                   IN  (k >= 2 /\ o # "" /\ ~IsComment(o)) =>
                          /\ Cardinality(before) <= 1
                          /\ Cardinality(after) = 1
                          /\ cbret'.result[1] >= k
                          /\ \A q \in after :
                                /\ q.warm_form = emojis[k]
                                /\ before = {} => q.times_seen = k * times
                                /\ \A p \in before :
                                      /\ q.id = p.id
                                      /\ q.times_seen =
                                            p.times_seen + k * times]_vars

\* one call on one line with two emoji returned 2 and the store holds the
\* single row of that line, seen twice, under the second emoji
C32_Witness ==
    /\ cbret = CbRet("extract_patterns", Some(2))
    /\ Cardinality(compression_codebook) = 1
    /\ \A p \in compression_codebook :
          /\ p.pattern_text = "U+1F512 never share U+1F511"
          /\ p.times_seen = 2
          /\ p.warm_form = "U+1F511"
          /\ p.token_cost_warm = 3
          /\ Len(p.source_entry_ids) = 1


(* ---------------------------------------------------------------------- *)
(* Properties of estimate_tokens                                          *)
(* ---------------------------------------------------------------------- *)
NonEmptyCalls == {k \in 1..Len(estimates) : estimates[k].text # ""}

\* C33: over any sequence of estimate_tokens calls the encoder is loaded at
\* most once, by the first call with a non-empty text; when that attempt
\* failed every call returns the heuristic count (0 for the empty text),
\* and every call returns a count, never an error.
C33_TryOnce ==
    /\ Len(load_attempts) <= 1
    /\ (Len(load_attempts) = 0) = (NonEmptyCalls = {})
    /\ \A a \in 1..Len(load_attempts) :
          /\ load_attempts[a].call \in NonEmptyCalls
          /\ \A k \in NonEmptyCalls : load_attempts[a].call <= k
          /\ load_attempts[a].outcome # "loaded" =>
                /\ _claude_encoder = Null
                /\ \A k \in NonEmptyCalls :
                      estimates[k] =
                         Estimate(estimates[k].text, "heuristic",
                                  estimate_tokens(estimates[k].text))
    /\ \A k \in 1..Len(estimates) :
          /\ estimates[k].value \in Nat
          /\ estimates[k].text = "" => estimates[k].value = 0

\* the first call had an empty text, the second failed to import tiktoken,
\* and the third returned the heuristic count of a text the encoder counts
\* differently
C33_Witness ==
    /\ Len(estimates) = 3
    /\ estimates[1].text = ""
    /\ load_attempts = << [outcome |-> "ImportError", call |-> 2] >>
    /\ estimates[3] = Estimate("Search Engine Optimization", "heuristic", 4)
    /\ ClaudeTokens("Search Engine Optimization") # 4


(* ---------------------------------------------------------------------- *)
(* Invariants of the backstop counters                                    *)
(* ---------------------------------------------------------------------- *)
\* C36: every backstop has 0 <= activation_count <= test_count and a
\* hit_rate between 0 and 1, and no step lowers a counter of a backstop.
C36_CountersBounded ==
    /\ [](\A e \in backstop_entries :
             /\ 0 <= e.activation_count
             /\ e.activation_count <= e.test_count
             /\ FracLeq(Frac(0, 1), hit_rate(_get_backstop(e)))
             /\ FracLeq(hit_rate(_get_backstop(e)), Frac(1, 1)))
    /\ [][\A e \in backstop_entries :
             \E f \in backstop_entries' :
                /\ f.backstop_id = e.backstop_id
                /\ f.activation_count >= e.activation_count
                /\ f.test_count >= e.test_count]_vars

\* a backstop that activated in one of its two tests, hit_rate 1/2, has
\* been retired with its counters kept
C36_Witness ==
    \E e \in backstop_entries :
        /\ e.test_count = 2 /\ e.activation_count = 1
        /\ e.retired = 1
        /\ ret.op = "retire"

ActivationRows(backstop_id) ==
    {i \in 1..Len(backstop_activations) :
        backstop_activations[i].backstop_id = backstop_id}

\* C37: for every backstop test_count is the number of activation rows
\* stored under its backstop id and activation_count the number of those
\* rows with activated = 1.
C37_LogMatchesCounters ==
    \A e \in backstop_entries :
       /\ e.test_count = Cardinality(ActivationRows(e.backstop_id))
       /\ e.activation_count =
             Cardinality({i \in ActivationRows(e.backstop_id) :
                             backstop_activations[i].activated = 1})

\* C38: stats() partitions the backstops, total_active = warm + hot and
\* warm + hot + retired = number of rows, and no backstop is in both
\* warm_backstops() and hot_backstops().
C38_StatsPartition ==
    /\ BackstopStats.total_active = BackstopStats.warm + BackstopStats.hot
    /\ BackstopStats.warm + BackstopStats.hot + BackstopStats.retired =
          Cardinality(backstop_entries)
    /\ \A w \in warm_backstops, h \in hot_backstops :
          w.backstop_id # h.backstop_id


(* ---------------------------------------------------------------------- *)
(* Two writers on one store                                               *)
(* ---------------------------------------------------------------------- *)
SharedEntry ==
    CHOOSE e \in backstop_entries : e.backstop_id = BackstopId(SharedRule)

\* C34: with two connections calling record_activation for the same
\* existing backstop in any interleaving, the stored test_count has grown
\* by the number of calls that returned and activation_count by the number
\* of those with activated = true; in particular once every call has
\* returned.
C34_NoLostActivation ==
    /\ SharedEntry.test_count = calls[SharedRule].t + calls[SharedRule].f
    /\ SharedEntry.activation_count = calls[SharedRule].t
    /\ Len(backstop_activations) = SharedEntry.test_count

\* both connections are idle, each had a record_activation return, one
\* with activated = true and two without, and the counters are 3 and 1
C34_Witness ==
    /\ \A w \in Writers : connections[w].pc = "idle"
    /\ \A w \in Writers : completed.by[w] >= 1
    /\ calls[SharedRule] = [t |-> 1, f |-> 2]
    /\ SharedEntry.test_count = 3
    /\ SharedEntry.activation_count = 1

\* C35, as stated: a counter update is a read-modify-write, the UPDATE of
\* record_pattern storing the times_seen its SELECT returned plus one, so
\* that an increment committed in between is lost.
C35_ReadModifyWrite ==
    [][\A w \in Writers :
          /\ connections[w].pc = "rp_write"
          /\ connections[w].existing # Null
          /\ connections'[w].pc = "rp_commit"
          => \A p \in connections'[w].txn[1].compression_codebook :
                p.id = connections[w].existing[1].id =>
                   p.times_seen = connections[w].existing[1].times_seen + 1]_vars

\* C35, amended: the increments are single UPDATE statements (times_seen =
\* times_seen + 1) run under the write lock, so with two connections no
\* increment of a call that returned is lost: every stored row's times_seen
\* is the number of record_pattern and update_usage calls that returned
\* after writing the row.
C35_NoLostIncrement ==
    /\ \A p \in compression_codebook : p.times_seen = completed.seen[p.id]
    /\ \A i \in PatternIds :
          completed.seen[i] > 0 => \E p \in compression_codebook : p.id = i

\* a record_pattern that read the row at times_seen = 1 writes it after
\* another connection's increment was committed: the row it is about to
\* commit has times_seen = 3, every increment counted
C35_Witness ==
    \E w \in Writers :
        /\ connections[w].pc = "rp_commit"
        /\ connections[w].existing # Null
        /\ connections[w].existing[1].times_seen = 1
        /\ \E p \in connections[w].txn[1].compression_codebook :
              /\ p.id = connections[w].existing[1].id
              /\ p.times_seen = 3
              /\ completed.seen[p.id] = 2

\* C39: once both connections are idle and each had a record_pattern for
\* the same original return, with its own entry id, the store holds one
\* row for the original and its source_entry_ids contain both entry ids.
C39_OneRowTwoWriters ==
    /\ \A w \in Writers : connections[w].pc = "idle"
    /\ observed[SharedOriginal].ids = {EntryOf(w) : w \in Writers}
    => /\ Cardinality(SelectPattern(SharedOriginal)) = 1
       /\ \A p \in SelectPattern(SharedOriginal) :
             \A w \in Writers : InList(EntryOf(w), p.source_entry_ids)


(* ---------------------------------------------------------------------- *)
(* A record_test that fails partway                                       *)
(* ---------------------------------------------------------------------- *)
\* C40: no row written by a record_test call that raised is visible to the
\* tracker's queries or in the committed database, right after the failure
\* or after any later call: neither the test row nor a rule-result row
\* under its test id.
C40_AllOrNothing ==
    \A id \in recorded.failed :
        /\ \A i \in 1..Len(validation_tests) : validation_tests[i].id # id
        /\ \A i \in 1..Len(validation_rule_results) :
              validation_rule_results[i].test_id # id
        /\ \A i \in 1..Len(validation_db.validation_tests) :
              validation_db.validation_tests[i].id # id
        /\ \A i \in 1..Len(validation_db.validation_rule_results) :
              validation_db.validation_rule_results[i].test_id # id

\* the rows of a failed call are committed by the next call that succeeds
C40_Persisted ==
    \E id \in recorded.failed :
        /\ \E i \in 1..Len(validation_db.validation_tests) :
              validation_db.validation_tests[i].id = id
        /\ \E i \in 1..Len(validation_db.validation_rule_results) :
              validation_db.validation_rule_results[i].test_id = id
        /\ vret.op = "classify_rule"


====
